---- MODULE Spec2Model ----
(***************************************************************************)
(* Hotel maintenance ticketing gateway: the SSE broadcast hub (package     *)
(* sse), its stream handler and the producers that call Hub.Broadcast,     *)
(* and the session store (package session) with its concurrent callers.    *)
(*                                                                         *)
(* Byte strings are sequences of one-character strings.  The byte 0xFF,    *)
(* which can occur in no UTF-8 encoding, is written BadByte, and the code  *)
(* point U+FFFD that encoding/json substitutes for it is written           *)
(* ReplacementChar.                                                        *)
(***************************************************************************)
EXTENDS Integers, Sequences, FiniteSets, TLC

\* ------------------------------------------------------------------------
\* Bounds of the model
\* ------------------------------------------------------------------------
\* number of HTTP requests that reach Hub.SSEHandler
NumConns == 2
\* number of goroutines that call Hub.Broadcast (broker callbacks)
NumProducers == 2
\* total number of Broadcast calls
MaxBroadcasts == 3
\* the first MaxVaried Broadcast calls pass any of Payloads, the later ones
\* pass PayloadJSON
MaxVaried == 1
\* capacity of a client mailbox; the code uses make(chan []byte, 25)
MailboxCap == 1
\* capacity of Hub.broadcast; the code uses make(chan []byte, 100)
BroadcastCap == 1
\* keep-alive ticks delivered to the connections
MaxTicks == 1
\* unregister requests sent by the channel-level client of HarnessSpec
MaxUnregisters == 4

\* goroutines that call the session store concurrently
NumCallers == 2
\* distinct values the entropy source can return
NumIDs == 2
\* distinct principals passed to Create
NumUsers == 2
\* calls of Create, Get and Delete started in one run
MaxOps == 4
\* the ttl passed to NewStore, in clock units
TTL == 1
\* the last reading of the clock
MaxNow == 3

\* HTTP requests the gateway serves in one run
MaxRequests == 3
MaxPublishes == 2
RingExtra == 2
MaxVariedAdds == 2
\* rows the tickets table can hold
MaxTickets == 2
\* ticket requests started in one run
MaxTicketOps == 3

Conns == 1..NumConns
Producers == 1..NumProducers
\* channel identities handed out by make(chan []byte, 25)
Handles == 1..NumConns
NoHandle == 0

\* ------------------------------------------------------------------------
\* encoding/json as used by Hub.Broadcast
\* ------------------------------------------------------------------------
BadByte == "xFF"
ReplacementChar == "uFFFD"

Digits == {"0", "1", "2", "3", "4", "5", "6", "7", "8", "9"}
HexDigits == Digits \cup {"a", "b", "c", "d", "e", "f", "A", "B", "C", "D", "E", "F"}
\* bytes below 0x20 that the model's alphabet contains
ControlBytes == {"\n", "\r", "\t"}
JSONSpace == {" ", "\n", "\r", "\t"}
SimpleEscapes == {"\"", "\\", "/", "b", "f", "n", "r", "t"}

At(s, i) == IF i >= 1 /\ i <= Len(s) THEN s[i] ELSE "EOF"

RECURSIVE SkipSpace(_, _)
SkipSpace(s, i) ==
    IF At(s, i) \in JSONSpace THEN SkipSpace(s, i + 1) ELSE i

RECURSIVE SkipDigits(_, _)
SkipDigits(s, i) ==
    IF At(s, i) \in Digits THEN SkipDigits(s, i + 1) ELSE i

\* Each Scan operator takes the index of the first byte of a construct and
\* returns the index after its last byte, or 0 when the bytes are not one.
RECURSIVE ScanStringBody(_, _)
ScanStringBody(s, i) ==
    LET c == At(s, i) IN
    IF c = "EOF" THEN 0
    ELSE IF c = "\"" THEN i + 1
    ELSE IF c = "\\" THEN
        IF At(s, i + 1) \in SimpleEscapes THEN ScanStringBody(s, i + 2)
        ELSE IF At(s, i + 1) = "u"
                /\ \A k \in 2..5 : At(s, i + k) \in HexDigits
             THEN ScanStringBody(s, i + 6)
        ELSE 0
    ELSE IF c \in ControlBytes THEN 0
    ELSE ScanStringBody(s, i + 1)

ScanString(s, i) ==
    IF At(s, i) = "\"" THEN ScanStringBody(s, i + 1) ELSE 0

ScanNumber(s, i) ==
    LET i1 == IF At(s, i) = "-" THEN i + 1 ELSE i
        i2 == IF At(s, i1) = "0" THEN i1 + 1
              ELSE IF At(s, i1) \in Digits THEN SkipDigits(s, i1)
              ELSE 0
        i3 == IF i2 = 0 THEN 0
              ELSE IF At(s, i2) = "."
                   THEN IF At(s, i2 + 1) \in Digits
                        THEN SkipDigits(s, i2 + 1) ELSE 0
              ELSE i2
        e1 == IF At(s, i3 + 1) \in {"+", "-"} THEN i3 + 2 ELSE i3 + 1
    IN  IF i3 = 0 THEN 0
        ELSE IF At(s, i3) \in {"e", "E"}
             THEN IF At(s, e1) \in Digits THEN SkipDigits(s, e1) ELSE 0
        ELSE i3

ScanLiteral(s, i, lit) ==
    IF \A k \in 1..Len(lit) : At(s, i + k - 1) = lit[k] THEN i + Len(lit) ELSE 0

RECURSIVE ScanValue(_, _), ScanElements(_, _), ScanMembers(_, _)
ScanValue(s, i) ==
    LET c == At(s, i) IN
    IF c = "{" THEN
        LET j == SkipSpace(s, i + 1) IN
        IF At(s, j) = "}" THEN j + 1 ELSE ScanMembers(s, j)
    ELSE IF c = "[" THEN
        LET j == SkipSpace(s, i + 1) IN
        IF At(s, j) = "]" THEN j + 1 ELSE ScanElements(s, j)
    ELSE IF c = "\"" THEN ScanString(s, i)
    ELSE IF c = "-" \/ c \in Digits THEN ScanNumber(s, i)
    ELSE IF c = "t" THEN ScanLiteral(s, i, <<"t", "r", "u", "e">>)
    ELSE IF c = "f" THEN ScanLiteral(s, i, <<"f", "a", "l", "s", "e">>)
    ELSE IF c = "n" THEN ScanLiteral(s, i, <<"n", "u", "l", "l">>)
    ELSE 0

\* after '[' and white space: value (',' value)* ']'
ScanElements(s, i) ==
    LET v == ScanValue(s, i)
        j == SkipSpace(s, v)
    IN  IF v = 0 THEN 0
        ELSE IF At(s, j) = "," THEN ScanElements(s, SkipSpace(s, j + 1))
        ELSE IF At(s, j) = "]" THEN j + 1
        ELSE 0

\* after '{' and white space: string ':' value (',' string ':' value)* '}'
ScanMembers(s, i) ==
    LET k == ScanString(s, i)
        c == SkipSpace(s, k)
        v == IF k # 0 /\ At(s, c) = ":" THEN ScanValue(s, SkipSpace(s, c + 1)) ELSE 0
        j == SkipSpace(s, v)
    IN  IF v = 0 THEN 0
        ELSE IF At(s, j) = "," THEN ScanMembers(s, SkipSpace(s, j + 1))
        ELSE IF At(s, j) = "}" THEN j + 1
        ELSE 0

\* json.Valid: one value surrounded by optional white space
Valid(b) ==
    LET v == ScanValue(b, SkipSpace(b, 1)) IN
    v # 0 /\ SkipSpace(b, v) = Len(b) + 1

\* variant: the bytes are copied between the quotes as they are
EscapeByteNone(c) == <<c>>

\* the bytes json.Marshal writes for one byte of a Go string
EscapeByte(c) ==
    IF c = "\"" THEN <<"\\", "\"">>
    ELSE IF c = "\\" THEN <<"\\", "\\">>
    ELSE IF c = "\n" THEN <<"\\", "n">>
    ELSE IF c = "\r" THEN <<"\\", "r">>
    ELSE IF c = "\t" THEN <<"\\", "t">>
    ELSE IF c = "<" THEN <<"\\", "u", "0", "0", "3", "c">>
    ELSE IF c = ">" THEN <<"\\", "u", "0", "0", "3", "e">>
    ELSE IF c = "&" THEN <<"\\", "u", "0", "0", "2", "6">>
    ELSE IF c = BadByte THEN <<"\\", "u", "f", "f", "f", "d">>
    ELSE <<c>>

RECURSIVE EscapeBytes(_)
EscapeBytes(s) ==
    IF s = <<>> THEN <<>> ELSE EscapeByte(Head(s)) \o EscapeBytes(Tail(s))

\* json.Marshal of a Go string
MarshalString(s) == <<"\"">> \o EscapeBytes(s) \o <<"\"">>

EnvelopeHead ==
    <<"{", "\"", "e", "v", "e", "n", "t", "\"", ":", "\"", "r", "a", "w", "\"", ",",
      "\"", "p", "a", "y", "l", "o", "a", "d", "\"", ":">>
EnvelopeTail == <<"}">>

\* json.Marshal(map[string]any{"event": "raw", "payload": string(b)}):
\* the keys of a map are written in sorted order
MarshalRaw(b) == EnvelopeHead \o MarshalString(b) \o EnvelopeTail

\* the bytes Hub.Broadcast puts on h.broadcast for the argument b
Normalize(b) == IF Valid(b) THEN b ELSE MarshalRaw(b)

\* ------------------------------------------------------------------------
\* Payloads handed to Hub.Broadcast
\* ------------------------------------------------------------------------
\* a JSON object written on two lines
PayloadJSON == <<"{", "\"", "k", "\"", ":", "\n", "1", "}">>
\* plain text
PayloadHello == <<"h", "e", "l", "l", "o">>
\* text with a quote, a backslash, a newline, an HTML character and a byte
\* that is not UTF-8
PayloadBinary == <<"\"", "\\", "\n", "<", BadByte>>
Payloads == {PayloadJSON, PayloadHello, PayloadBinary}
\* the arguments of the k-th Broadcast call
PayloadsOfCall(k) == IF k <= MaxVaried THEN Payloads ELSE {PayloadJSON}

\* ------------------------------------------------------------------------
\* Frames written by the stream handler
\* ------------------------------------------------------------------------
RECURSIVE StripNewlines(_)
StripNewlines(s) ==
    IF s = <<>> THEN <<>>
    ELSE IF Head(s) = "\n" THEN StripNewlines(Tail(s))
    ELSE <<Head(s)>> \o StripNewlines(Tail(s))

FramePrefix == <<"d", "a", "t", "a", ":", " ">>
FrameEnd == <<"\n", "\n">>

\* fmt.Fprintf(w, "data: %s\n\n", bytes.ReplaceAll(data, "\n", ""))
writeSSE(data) == FramePrefix \o StripNewlines(data) \o FrameEnd

\* variant: the data is written as it is
writeSSEBufferedRaw(data) == FramePrefix \o data \o FrameEnd

\* fmt.Fprintf(w, "data: %s\n\n", bytes.ReplaceAll(data, "\n", "")) on bw
writeSSEBuffered(data) == FramePrefix \o StripNewlines(data) \o FrameEnd

ConnectedMsg ==
    <<"{", "\"", "e", "v", "e", "n", "t", "\"", ":",
      "\"", "c", "o", "n", "n", "e", "c", "t", "e", "d", "\"", "}">>
KeepAliveFrame ==
    <<":", " ", "k", "e", "e", "p", "-", "a", "l", "i", "v", "e", "\n", "\n">>

\* ------------------------------------------------------------------------
\* Package session: values
\* ------------------------------------------------------------------------
Callers == 1..NumCallers
NoCaller == 0

\* b := make([]byte, 32)
IDBytes == 32

\* what rand.Read can leave in b: any bytes, the same ones again included
EntropyOutput(k) == [i \in 1..IDBytes |-> (85 * k + 7 * i) % 256]
EntropyOutputs == {EntropyOutput(k) : k \in 1..NumIDs}
\* rand.Read returning an error
EntropyFail == <<>>

\* encoding/hex: hextable
HexTable ==
    <<"0", "1", "2", "3", "4", "5", "6", "7",
      "8", "9", "a", "b", "c", "d", "e", "f">>

\* variant: the encoding keeps only the high half of every byte
EncodeToStringHigh(b) == [j \in 1..Len(b) |-> HexTable[(b[j] \div 16) + 1]]

\* hex.EncodeToString(b): two digits per byte, high half first
EncodeToString(b) ==
    [j \in 1..(2 * Len(b)) |->
        IF j % 2 = 1
        THEN HexTable[(b[(j + 1) \div 2] \div 16) + 1]
        ELSE HexTable[(b[j \div 2] % 16) + 1]]

\* variant: when the entropy source fails a fixed id takes the place
newIDSubstitute(r) ==
    IF r = EntropyFail
    THEN [id |-> EncodeToString(EntropyOutput(1)), err |-> FALSE]
    ELSE [id |-> EncodeToString(r), err |-> FALSE]

\* newID() with r the outcome of rand.Read
newID(r) ==
    IF r = EntropyFail
    THEN [id |-> <<>>, err |-> TRUE]
    ELSE [id |-> EncodeToString(r), err |-> FALSE]

\* the principals handed to Create
Users == {[ID |-> u] : u \in 1..NumUsers}
\* authclient.User{}
NoUser == [ID |-> 0]

\* time.Time{}: before every reading of the clock
ZeroTime == 0
\* the first reading of the clock
StartTime == 1

\* Session{}
EmptySession == [ID |-> <<>>, User |-> NoUser, CreatedAt |-> ZeroTime]

\* ss := Session{ID: id, User: u, CreatedAt: now}
NewSession(id, u, t) == [ID |-> id, User |-> u, CreatedAt |-> t]

\* a cookie value that newID never returns
BogusID == <<"x">>
\* the ids Get and Delete are called with
SessionIDs == {EncodeToString(r) : r \in EntropyOutputs} \cup {BogusID}

\* _, ok := m[k]
MapHas(m, k) == k \in DOMAIN m

\* variant: the read stamps the copy with the present time
MapGetTouched(m, k, t) == [m[k] EXCEPT !.CreatedAt = t]

\* ss, _ := m[k], read at time t
MapGet(m, k, t) == m[k]

\* m[k] = v
MapPut(m, k, v) == [x \in DOMAIN m \cup {k} |-> IF x = k THEN v ELSE m[x]]

\* variant: delete leaves the map as it is
MapDeleteNone(m, k) == m

\* variant: delete empties the map
MapDeleteAll(m, k) == [x \in {} |-> EmptySession]

\* delete(m, k)
MapDelete(m, k) == [x \in DOMAIN m \ {k} |-> m[x]]

\* time.Since(t) when the clock reads n
Since(t, n) == n - t

\* variant: a session whose age equals the ttl counts as expired
ExpiredAtTTL(ss, n) == Since(ss.CreatedAt, n) >= TTL

\* time.Since(ss.CreatedAt) > s.ttl when the clock reads n
Expired(ss, n) == Since(ss.CreatedAt, n) > TTL

\* the value a call returns; op is "none" while no call of the caller has
\* returned since it last started one
NoResult == [op |-> "none", id |-> <<>>, ok |-> FALSE, sess |-> EmptySession]
Result(op, id, ok, ss) == [op |-> op, id |-> id, ok |-> ok, sess |-> ss]

\* ------------------------------------------------------------------------
\* Package mq: topics
\* ------------------------------------------------------------------------
\* a topic is the sequence of its levels
TopicTicketCreated == <<"smarthotel", "tickets", "created">>
TopicTicketStatusUpdated == <<"smarthotel", "tickets", "status_updated">>
TopicTicketAssigned == <<"smarthotel", "tickets", "assigned">>
TopicChatTicketPrefix == <<"smarthotel", "chat", "ticket">>
TopicChatTicketWildcard == TopicChatTicketPrefix \o <<"+">>

\* fmt.Sprintf("%s%d", TopicChatTicketPrefix, ticketID)
ChatTopic(ticketID) == TopicChatTicketPrefix \o <<ToString(ticketID)>>

\* the broker's matching of a topic against a subscription's filter, in
\* which the level + stands for any one level
TopicMatches(filter, topic) ==
    /\ Len(filter) = Len(topic)
    /\ \A i \in 1..Len(filter) : filter[i] \in {"+", topic[i]}

\* the topics messages are published on
PublishTopics ==
    {TopicTicketCreated, TopicTicketStatusUpdated, TopicTicketAssigned, ChatTopic(1)}

\* ------------------------------------------------------------------------
\* Notifier: RingBuffer values
\* ------------------------------------------------------------------------
\* a slice is an array and a length; the array of a slice that was freed
\* or never made is 0
NoSlice == [array |-> 0, len |-> 0]
NoRing == [max |-> 0, arr |-> NoSlice]
NoRequest == [kind |-> "none", n |-> 0, env |-> <<>>]

\* the capacities NewRingBuffer is called with, and the values of the
\* EVENT_BUFFER_SIZE setting, as sequences of characters
RequestedSizes == {-1, 0, 1, 2}
ConfigSizes == {<<>>, <<"x">>, <<"0">>, <<"-", "1">>, <<"1">>, <<"2">>}

DigitChars == <<"0", "1", "2", "3", "4", "5", "6", "7", "8", "9">>
DigitValue(c) == (CHOOSE i \in 1..Len(DigitChars) : DigitChars[i] = c) - 1

RECURSIVE DecimalValue(_)
DecimalValue(d) ==
    IF d = <<>> THEN 0
    ELSE 10 * DecimalValue(SubSeq(d, 1, Len(d) - 1)) + DigitValue(d[Len(d)])

\* strconv.Atoi: an optional sign, then one or more decimal digits
Atoi(s) ==
    LET signed == s # <<>> /\ s[1] \in {"-", "+"}
        body == IF signed THEN Tail(s) ELSE s
        ok == body # <<>> /\ \A i \in 1..Len(body) :
                               \E j \in 1..Len(DigitChars) : DigitChars[j] = body[i]
    IN [ok |-> ok,
        n |-> IF ~ok THEN 0
              ELSE IF signed /\ s[1] = "-" THEN 0 - DecimalValue(body)
              ELSE DecimalValue(body)]

\* bufSize := 50 in main, and max = 50 in NewRingBuffer
DefaultBufSize == 50
DefaultMax == 50

\* main: the size taken from the setting when it parses to a positive number
BufSize(cfg) ==
    IF cfg # <<>> /\ Atoi(cfg).ok /\ Atoi(cfg).n > 0 THEN Atoi(cfg).n
    ELSE DefaultBufSize

\* NewRingBuffer: arr is make([]EventRecord, 0, max), held in array 1
NewRingBuffer(max) ==
    [max |-> IF max <= 0 THEN DefaultMax ELSE max, arr |-> [array |-> 1, len |-> 0]]

\* the elements of the slice sl, given the arrays mem
SliceValue(mem, sl) == IF sl.array = 0 THEN <<>> ELSE SubSeq(mem[sl.array], 1, sl.len)

\* variant: the elements stay where they are
ShiftLeftNone(a) == a

\* copy(rb.arr, rb.arr[1:]): every element but the last takes the value of
\* its right neighbour
ShiftLeft(a) == [i \in 1..Len(a) |-> IF i < Len(a) THEN a[i + 1] ELSE a[i]]

\* RingBuffer.Add: append within the capacity of the array, or shift and
\* overwrite the last element; the result is the new rb and the new arrays
RingAdd(r, mem, e) ==
    IF r.arr.len < r.max
    THEN [rb |-> [r EXCEPT !.arr.len = @ + 1],
          mem |-> [mem EXCEPT ![r.arr.array] = Append(SubSeq(@, 1, r.arr.len), e)]]
    ELSE [rb |-> r,
          mem |-> [mem EXCEPT ![r.arr.array] =
                      [ShiftLeft(@) EXCEPT ![r.arr.len] = e]]]

\* RingBuffer.Snapshot: out := make(...) is array 2; copy(out, rb.arr)
RingSnapshot(r, mem) ==
    [out |-> [array |-> 2, len |-> r.arr.len],
     mem |-> [mem EXCEPT ![2] = SliceValue(mem, r.arr)]]

\* EventRecord{ReceivedAt, Topic, Payload} of the k-th message received
EventRecord(k, t, b) == [ReceivedAt |-> k, Topic |-> t, Payload |-> b]

\* the locals of Add, of the /events handler, and its response
NotAdding == [pc |-> "idle", k |-> 0, e |-> EventRecord(0, <<>>, <<>>)]
NotServing == [pc |-> "idle", count |-> 0, n |-> 0, out |-> <<>>]
NoEvents == [served |-> FALSE, count |-> 0, events |-> <<>>]

\* ------------------------------------------------------------------------
\* Gateway routes: values
\* ------------------------------------------------------------------------
\* r.Cookie(sessionCookieName) returning http.ErrNoCookie
NoCookie == [present |-> FALSE, value |-> <<>>]
Cookie(v) == [present |-> TRUE, value |-> v]
\* the cookies a request can carry: none, an empty value, any id
Cookies == {NoCookie} \cup {Cookie(v) : v \in SessionIDs \cup {<<>>}}

\* what a handler did: the status it wrote, the user it passed on to the
\* ticket API or the stream handler, and the value of the cookie it set
NoResponse == [status |-> "none", user |-> NoUser, cookie |-> <<>>]
Response(st, u, ck) == [status |-> st, user |-> u, cookie |-> ck]

\* ------------------------------------------------------------------------
\* Package tickets: values
\* ------------------------------------------------------------------------
RoleGuest == "GUEST"
RoleStaff == "STAFF"
RoleAdmin == "ADMIN"
\* a role value that is none of the three constants
RoleOther == "MANAGER"

\* authclient.User, as far as the ticket routes read it
Principal(id, role, room) == [ID |-> id, Role |-> role, Room |-> room]
NoPrincipal == Principal(0, "", "")

\* the principals currentUser hands to the ticket routes
Principals ==
    {Principal(1, RoleAdmin, ""),
     Principal(3, RoleStaff, ""),
     Principal(4, RoleGuest, "101"),
     Principal(5, RoleGuest, "102"),
     Principal(6, RoleGuest, ""),
     Principal(7, RoleOther, "")}

StatusOpen == "OPEN"
StatusInProgress == "IN_PROGRESS"
StatusResolved == "RESOLVED"

\* variant: every status value is taken as valid
IsValidStatusAny(s) == TRUE

IsValidStatus(s) == s = StatusOpen \/ s = StatusInProgress \/ s = StatusResolved

IsValidType(t) == t \in {"plumbing", "ac", "noise", "cleaning", "wifi", "other"}

\* AssignedToUserID == nil
NoAssignee == 0

NoTicket ==
    [ID |-> 0, Type |-> "", Room |-> "", Description |-> "", Status |-> "",
     CreatedByUserID |-> 0, AssignedToUserID |-> NoAssignee]

\* a request body that json.Decoder.Decode rejects
BadJSON == [bad |-> TRUE]

\* bodies of POST /api/tickets; CreateTicketReq has no room field, so a room
\* member of the body is skipped by the decoder
CreateBodies ==
    {BadJSON} \cup
    {[bad |-> FALSE, type |-> t, description |-> d, room |-> r] :
        t \in {"wifi", "spa"}, d \in {"", "leak"}, r \in {"999"}}

\* bodies of PATCH /api/tickets/{id}/status
UpdateBodies ==
    {BadJSON} \cup
    {[bad |-> FALSE, status |-> st] :
        st \in {StatusOpen, StatusInProgress, StatusResolved, "DONE"}}

\* bodies of PATCH /api/tickets/{id}/assign
AssignBodies ==
    {BadJSON} \cup {[bad |-> FALSE, staff_user_id |-> n] : n \in {-1, 0, 2, 3}}

\* what ListUsersByRole(RoleStaff) can return: the ids of the listed users;
\* user 2 is a STAFF user who sends no request
StaffLists == {{2}, {2, 3}}

\* the {id} parameter of a route
IDParams == {<<"1">>, <<"2">>, <<"x">>}

\* strconv.ParseInt(s, 10, 64)
parseID(s) == Atoi(s)

\* mustParseID drops the error: an id that does not parse is 0
mustParseID(s) == Atoi(s).n

\* variant: a guest is shown every ticket that has a room
canViewAnyRoom(u, t) ==
    CASE u.Role = RoleAdmin -> TRUE
      [] u.Role = RoleGuest -> t.Room # ""
      [] u.Role = RoleStaff -> t.AssignedToUserID # NoAssignee /\ t.AssignedToUserID = u.ID
      [] OTHER -> FALSE

canView(u, t) ==
    CASE u.Role = RoleAdmin -> TRUE
      [] u.Role = RoleGuest -> u.Room # "" /\ t.Room = u.Room
      [] u.Role = RoleStaff -> t.AssignedToUserID # NoAssignee /\ t.AssignedToUserID = u.ID
      [] OTHER -> FALSE

\* ORDER BY datetime(created_at) DESC, id DESC: the newest row first
NewestFirst(q) == [i \in 1..Len(q) |-> q[Len(q) + 1 - i]]

\* Repository.ListAll, ListByRoom and ListAssignedTo over the table q
ListAll(q) == NewestFirst(q)
ListByRoom(q, room) == LET keep(t) == t.Room = room IN NewestFirst(SelectSeq(q, keep))
ListAssignedTo(q, staffUserID) ==
    LET keep(t) == t.AssignedToUserID # NoAssignee /\ t.AssignedToUserID = staffUserID
    IN NewestFirst(SelectSeq(q, keep))

\* Repository.Create: the row gets the next id and, if it has none, status OPEN
RepoCreate(q, t) ==
    Append(q, [t EXCEPT !.ID = Len(q) + 1,
                        !.Status = IF t.Status = "" THEN StatusOpen ELSE t.Status])

\* whether the UPDATE ... WHERE id=? of UpdateStatus and Assign affects a row
RowExists(q, id) == id \in 1..Len(q)

\* Repository.UpdateStatus and Repository.Assign on an existing row
RepoUpdateStatus(q, id, status) == [q EXCEPT ![id].Status = status]
RepoAssign(q, id, staffUserID) == [q EXCEPT ![id].AssignedToUserID = staffUserID]

\* EventPayload as published on a topic, with the id of its ticket
Event(topic, name, t, to) == [topic |-> topic, event |-> name, ticket |-> t, assigned_to |-> to]

\* the outcome of a ticket request: the status code and the body written,
\* with the id the request named (0 if none that parsed)
NoOutcome ==
    [op |-> "none", u |-> NoPrincipal, id |-> 0, code |-> 0, body |-> <<>>,
     err |-> "", conn |-> FALSE, sent |-> FALSE]
Outcome(op, u, id, code, body) ==
    [op |-> op, u |-> u, id |-> id, code |-> code, body |-> body,
     err |-> "", conn |-> FALSE, sent |-> FALSE]

\* the error message for a status request whose value is not a status
InvalidStatus == "invalid status (OPEN/IN_PROGRESS/RESOLVED)"

\* the locals of a ticket handler between its steps
NoLocals ==
    [op |-> "none", u |-> NoPrincipal, id |-> 0, status |-> "", staff |-> 0,
     listed |-> {}, topic |-> <<>>, was |-> NoTicket, room |-> ""]

\* ------------------------------------------------------------------------
\* State
\* ------------------------------------------------------------------------
VARIABLES
    hubState,    \* "running", or "panicked" once Hub.Run has panicked
    clients,     \* Hub.clients: the set of registered channels
    mailbox,     \* the buffer of each client channel
    closed,      \* the client channels that have been closed
    broadcast,   \* the buffer of Hub.broadcast
    made,        \* number of client channels made so far
    pc,          \* position of each SSEHandler invocation
    client,      \* the channel each invocation made (NoHandle before)
    cancelled,   \* whether r.Context().Done() is closed
    flusher,     \* whether each invocation's w implements http.Flusher
    ticks,       \* keep-alive ticks taken by the invocations so far
    frames,      \* the frames each invocation has written, in order
    ppc,         \* position of each Broadcast caller
    pmsg,        \* the bytes a blocked Broadcast caller is sending
    praw,        \* the argument of the Broadcast call in progress
    pregd,       \* history: the registry when that call started, where noted
    calls,       \* number of Broadcast calls started
    accepted,    \* history: number of sends on h.broadcast that completed
    nReg,        \* history: register requests processed by Hub.Run
    unregSeen,   \* history: channels for which Hub.Run processed an unregister
    unregSent,   \* history: unregister requests sent by each invocation
    recvd,       \* history: sequence numbers each invocation took from its mailbox
    nUnreg,      \* history: unregister requests processed by Hub.Run
    sessions,    \* Store.sessions
    muWriter,    \* the caller holding Store.mu for writing (NoCaller if none)
    muReaders,   \* the callers holding Store.mu for reading
    now,         \* the reading of the clock
    spc,         \* position of each caller of the store
    sop,         \* the method each caller is in
    sid,         \* the local id of each call
    sss,         \* the local ss of each call
    sret,        \* what the last call of each caller returned
    sops,        \* number of calls started
    safter,      \* history: whether the call started after a miss of its id
    sfail,       \* history: whether rand.Read failed in the caller's call
    sdraw,       \* history: the bytes rand.Read gave the caller's call
    misses,      \* history: per id, whether a Create stored it, a Get
                 \* missed it afterwards, and a Create stored it again
    rpc,         \* position of the route handler each caller runs
    rroute,      \* the route of the caller's request
    rcookie,     \* the session cookie of the caller's request
    rresp,       \* the outcome of the caller's last request
    nreq,        \* number of requests started
    loggedOut,   \* history: cookie values whose logout request completed
    revoked,     \* history: ids a logout deleted and no Create stored since
    rafter,      \* history: whether the request started after a logout
    \* the gateway's broker bridge
    bpc,         \* index of the topic subscribeAndBridge is about to subscribe
    subs,        \* the client's subscriptions at the broker
    blog,        \* the lines subscribeAndBridge has logged
    inbox,       \* messages the broker delivered, not yet given to the callback
    delivered,   \* history: payloads the broker delivered to the client
    forwarded,   \* history: arguments of the callback's Broadcast calls
    unbridged,   \* history: topics of publishes that matched no subscription
    \* the notifier's ring buffer
    rb,          \* the RingBuffer: max and the slice arr (array, length)
    rmem,        \* the arrays behind the slices
    rsnap,       \* the slice the last Snapshot returned
    rwas,        \* history: the events in rsnap when it was returned
    radded,      \* history: the events added, in arrival order
    rreq,        \* history: the capacity that was asked for
    \* the ticket routes
    tickets,     \* the rows of the tickets table; row i has id i
    tpc,         \* position of the ticket handler each caller runs
    tloc,        \* the locals of that handler
    tout,        \* the response written in the step just taken, if any
    published,   \* the events the broker client has sent, in order
    tops,        \* number of ticket requests started
    \* the notifier's callback and /events handler side by side
    adding,      \* the Add in progress: its position, index and record
    serving,     \* the /events handler in progress: its position and locals
    evout        \* the last /events response
                 \* of its cookie value completed

hubVars == <<hubState, clients, mailbox, closed, broadcast, made>>
connVars == <<pc, client, cancelled, flusher, ticks, frames>>
prodVars == <<ppc, pmsg, praw, pregd, calls>>
histVars == <<accepted, nReg, unregSeen, unregSent, recvd, nUnreg>>
sessVars == <<sessions, muWriter, muReaders, now, spc, sop, sid, sss, sret,
              sops, safter, sfail, sdraw, misses>>
reqVars == <<rpc, rroute, rcookie, rresp, nreq, loggedOut, revoked, rafter>>
bridgeVars == <<bpc, subs, blog, inbox, delivered, forwarded, unbridged>>
ringVars == <<rb, rmem, rsnap, rwas, radded, rreq>>
tktVars == <<tickets, tpc, tloc, tout, published, tops>>
raceVars == <<adding, serving, evout>>
appVars == <<tktVars, raceVars>>
mqVars == <<bridgeVars, ringVars, appVars>>
vars == <<hubVars, connVars, prodVars, histVars, sessVars, reqVars, mqVars>>

Init ==
    /\ hubState = "running"
    /\ clients = {}
    /\ mailbox = [h \in Handles |-> <<>>]
    /\ closed = {}
    /\ broadcast = <<>>
    /\ made = 0
    /\ pc = [c \in Conns |-> "idle"]
    /\ client = [c \in Conns |-> NoHandle]
    /\ cancelled = [c \in Conns |-> FALSE]
    /\ flusher = [c \in Conns |-> "none"]
    /\ ticks = 0
    /\ frames = [c \in Conns |-> <<>>]
    /\ ppc = [p \in Producers |-> "idle"]
    /\ pmsg = [p \in Producers |-> <<>>]
    /\ praw = [p \in Producers |-> <<>>]
    /\ pregd = [p \in Producers |-> {}]
    /\ calls = 0
    /\ accepted = 0
    /\ nReg = 0
    /\ unregSeen = {}
    /\ unregSent = [c \in Conns |-> 0]
    /\ recvd = [c \in Conns |-> <<>>]
    /\ nUnreg = 0
    /\ sessions = [x \in {} |-> EmptySession]
    /\ muWriter = NoCaller
    /\ muReaders = {}
    /\ now = StartTime
    /\ spc = [g \in Callers |-> "idle"]
    /\ sop = [g \in Callers |-> "none"]
    /\ sid = [g \in Callers |-> <<>>]
    /\ sss = [g \in Callers |-> EmptySession]
    /\ sret = [g \in Callers |-> NoResult]
    /\ sops = 0
    /\ safter = [g \in Callers |-> FALSE]
    /\ sfail = [g \in Callers |-> FALSE]
    /\ sdraw = [g \in Callers |-> <<>>]
    /\ tickets = <<>>
    /\ tpc = [g \in Callers |-> "idle"]
    /\ tloc = [g \in Callers |-> NoLocals]
    /\ tout = NoOutcome
    /\ published = <<>>
    /\ tops = 0
    /\ adding = NotAdding
    /\ serving = NotServing
    /\ evout = NoEvents
    /\ misses = [x \in SessionIDs |-> "never"]
    /\ rpc = [g \in Callers |-> "idle"]
    /\ rroute = [g \in Callers |-> "none"]
    /\ rcookie = [g \in Callers |-> NoCookie]
    /\ rresp = [g \in Callers |-> NoResponse]
    /\ nreq = 0
    /\ loggedOut = {}
    /\ revoked = {}
    /\ bpc = 1
    /\ subs = {}
    /\ blog = <<>>
    /\ inbox = <<>>
    /\ delivered = <<>>
    /\ forwarded = <<>>
    /\ unbridged = {}
    /\ rb = NoRing
    /\ rmem = <<<<>>, <<>>>>
    /\ rsnap = NoSlice
    /\ rwas = <<>>
    /\ radded = <<>>
    /\ rreq = NoRequest
    /\ rafter = [g \in Callers |-> FALSE]

\* ------------------------------------------------------------------------
\* Hub.Run
\* ------------------------------------------------------------------------
\* variant: the register case fills the registry with every channel
RunRegisterAll(cs, ch) == Handles

\* case ch := <-h.register
RunRegister(cs, ch) == cs \cup {ch}

\* variant: the unregister case forgets delete(h.clients, ch)
RunUnregisterNoDelete(cs, ch) == cs

\* case ch := <-h.unregister: the registry afterwards
RunUnregister(cs, ch) == IF ch \in cs THEN cs \ {ch} ELSE cs

\* variant: the unregister case closes ch without looking it up
RunClosesAlways(cs, ch) == TRUE

\* variant: the unregister case never closes ch
RunClosesNever(cs, ch) == FALSE

\* case ch := <-h.unregister: whether close(ch) is executed
RunCloses(cs, ch) == ch \in cs

\* variant: a full mailbox loses its oldest message to make room
TrySendEvict(q, m) ==
    IF Len(q) < MailboxCap THEN Append(q, m) ELSE Append(Tail(q), m)

\* select { case ch <- msg: default: } on a client channel with buffer q
TrySend(q, m) == IF Len(q) < MailboxCap THEN Append(q, m) ELSE q

\* variant: the send has no default case and waits for room
SendReadyBlocking(q) == Len(q) < MailboxCap

\* whether that select can proceed: its default case makes it always ready
SendReady(q) == TRUE

\* variant: a receive leaves the message in the buffer
ChanRestKeep(q) == q

\* what a receive leaves in the buffer q of a channel
ChanRest(q) == Tail(q)

\* variant: the range loop stops after the first channel it serves
FanOutFirst(cs, mb, m) ==
    [h \in Handles |->
        IF h \in cs /\ \A g \in cs : h <= g THEN TrySend(mb[h], m) ELSE mb[h]]

\* the range loop of the broadcast case over the registry cs
FanOut(cs, mb, m) ==
    [h \in Handles |-> IF h \in cs THEN TrySend(mb[h], m) ELSE mb[h]]

\* the message Hub.Run takes from h.broadcast
NextBroadcast(q) == Head(q)

HubRegisterStep(ch) ==
    /\ clients' = RunRegister(clients, ch)
    /\ nReg' = nReg + 1
    /\ UNCHANGED <<hubState, mailbox, closed, broadcast, unregSeen, nUnreg>>

HubUnregisterStep(ch) ==
    /\ unregSeen' = unregSeen \cup {ch}
    /\ nUnreg' = nUnreg + 1
    /\ IF RunCloses(clients, ch) /\ ch \in closed
       THEN \* close of a closed channel
            /\ hubState' = "panicked"
            /\ clients' = RunUnregister(clients, ch)
            /\ UNCHANGED closed
       ELSE /\ clients' = RunUnregister(clients, ch)
            /\ closed' = IF RunCloses(clients, ch) THEN closed \cup {ch} ELSE closed
            /\ UNCHANGED hubState
    /\ UNCHANGED <<mailbox, broadcast, nReg>>

\* case msg := <-h.broadcast
HubBroadcast ==
    /\ hubState = "running"
    /\ broadcast # <<>>
    /\ \A h \in clients : SendReady(mailbox[h])
    /\ LET m == NextBroadcast(broadcast) IN
       /\ broadcast' = ChanRest(broadcast)
       /\ IF clients \cap closed # {}
          THEN \* send on a closed channel; the range order decides who
               \* was served before
               /\ hubState' = "panicked"
               /\ \E served \in SUBSET (clients \ closed) :
                    mailbox' = FanOut(served, mailbox, m)
          ELSE /\ mailbox' = FanOut(clients, mailbox, m)
               /\ UNCHANGED hubState
    /\ UNCHANGED <<clients, closed, made>>
    /\ UNCHANGED <<connVars, prodVars>>
    /\ UNCHANGED <<accepted, nReg, unregSeen, unregSent, recvd, nUnreg>>
    /\ UNCHANGED sessVars
    /\ UNCHANGED mqVars
    /\ UNCHANGED reqVars

\* ------------------------------------------------------------------------
\* Hub.Broadcast
\* ------------------------------------------------------------------------
\* a caller enters Broadcast(b) and normalises b
BroadcastCall(p, b) ==
    /\ hubState = "running"
    /\ ppc[p] = "idle"
    /\ \A q \in Producers : q < p => ppc[q] = "send"
    /\ calls < MaxBroadcasts
    /\ b \in PayloadsOfCall(calls + 1)
    /\ calls' = calls + 1
    /\ ppc' = [ppc EXCEPT ![p] = "send"]
    /\ praw' = [praw EXCEPT ![p] = b]
    /\ pmsg' = [pmsg EXCEPT ![p] = Normalize(b)]
    /\ UNCHANGED <<hubVars, connVars, histVars>>
    /\ UNCHANGED sessVars
    /\ UNCHANGED reqVars

\* h.broadcast <- append([]byte(nil), b...) completes and Broadcast returns
BroadcastSend(p) ==
    /\ hubState = "running"
    /\ ppc[p] = "send"
    /\ Len(broadcast) < BroadcastCap
    /\ broadcast' = Append(broadcast, [seq |-> accepted + 1, body |-> pmsg[p],
                                       arg |-> praw[p], regd |-> pregd[p]])
    /\ accepted' = accepted + 1
    /\ ppc' = [ppc EXCEPT ![p] = "idle"]
    /\ pmsg' = [pmsg EXCEPT ![p] = <<>>]
    /\ praw' = [praw EXCEPT ![p] = <<>>]
    /\ pregd' = [pregd EXCEPT ![p] = {}]
    /\ UNCHANGED <<hubState, clients, mailbox, closed, made>>
    /\ UNCHANGED <<connVars, calls>>
    /\ UNCHANGED <<nReg, unregSeen, unregSent, recvd, nUnreg>>
    /\ UNCHANGED sessVars
    /\ UNCHANGED mqVars
    /\ UNCHANGED reqVars

\* ------------------------------------------------------------------------
\* Hub.SSEHandler
\* ------------------------------------------------------------------------
\* variant: every handler uses one shared channel
NewClientShared(n) == 1

\* make(chan []byte, 25): a channel no earlier make returned
NewClient(n) == n + 1

\* variant: the handler enters its loop without writing the sentinel
AfterRegisterLoop == "loop"

\* after h.register <- client the handler writes the sentinel, then loops
AfterRegister == "sentinel"

\* variant: the handler does not look at ok
SupportedAlways(canFlush) == TRUE

\* flusher, ok := w.(http.Flusher): the value of ok
Supported(canFlush) == canFlush

\* the request arrives; canFlush tells whether w implements http.Flusher
Start(c, canFlush) ==
    /\ hubState = "running"
    /\ pc[c] = "idle"
    /\ \A d \in Conns : d < c => pc[d] # "idle"
    /\ flusher' = [flusher EXCEPT ![c] = IF canFlush THEN "yes" ELSE "no"]
    /\ IF Supported(canFlush)
       THEN /\ client' = [client EXCEPT ![c] = NewClient(made)]
            /\ made' = made + 1
            /\ pc' = [pc EXCEPT ![c] = "register"]
       ELSE /\ pc' = [pc EXCEPT ![c] = "unsupported"]
            /\ UNCHANGED <<client, made>>
    /\ UNCHANGED <<hubState, clients, mailbox, closed, broadcast>>
    /\ UNCHANGED <<cancelled, ticks, frames, prodVars, histVars>>
    /\ UNCHANGED sessVars
    /\ UNCHANGED mqVars

\* h.register <- client meets case ch := <-h.register
Register(c) ==
    /\ hubState = "running"
    /\ pc[c] = "register"
    /\ HubRegisterStep(client[c])
    /\ pc' = [pc EXCEPT ![c] = AfterRegister]
    /\ UNCHANGED <<made, client, cancelled, flusher, ticks, frames, prodVars>>
    /\ UNCHANGED <<accepted, unregSent, recvd>>
    /\ UNCHANGED sessVars
    /\ UNCHANGED mqVars
    /\ UNCHANGED reqVars

\* writeSSE(w, {"event":"connected"}); flusher.Flush()
WriteConnected(c) ==
    /\ hubState = "running"
    /\ pc[c] = "sentinel"
    /\ frames' = [frames EXCEPT ![c] = Append(@, writeSSE(ConnectedMsg))]
    /\ pc' = [pc EXCEPT ![c] = "loop"]
    /\ UNCHANGED <<hubVars, client, cancelled, flusher, ticks, prodVars>>
    /\ UNCHANGED <<accepted, nReg, unregSeen, unregSent, recvd, nUnreg>>
    /\ UNCHANGED sessVars
    /\ UNCHANGED mqVars
    /\ UNCHANGED reqVars

\* the request context is cancelled (remote disconnect, server shutdown)
Cancel(c) ==
    /\ hubState = "running"
    /\ pc[c] \in {"register", "sentinel", "loop"}
    /\ ~cancelled[c]
    /\ cancelled' = [cancelled EXCEPT ![c] = TRUE]
    /\ UNCHANGED <<hubVars, pc, client, flusher, ticks, frames, prodVars, histVars>>
    /\ UNCHANGED sessVars
    /\ UNCHANGED mqVars
    /\ UNCHANGED reqVars

\* case <-notify: return; the deferred function starts its send
LoopCancel(c) ==
    /\ hubState = "running"
    /\ pc[c] = "loop"
    /\ cancelled[c]
    /\ pc' = [pc EXCEPT ![c] = "unregister"]
    /\ unregSent' = [unregSent EXCEPT ![c] = @ + 1]
    /\ UNCHANGED <<hubVars, client, cancelled, flusher, ticks, frames, prodVars>>
    /\ UNCHANGED <<accepted, nReg, unregSeen, recvd, nUnreg>>
    /\ UNCHANGED sessVars
    /\ UNCHANGED mqVars
    /\ UNCHANGED reqVars

\* case <-keepAlive.C
LoopTick(c) ==
    /\ hubState = "running"
    /\ pc[c] = "loop"
    /\ ticks < MaxTicks
    /\ ticks' = ticks + 1
    /\ frames' = [frames EXCEPT ![c] = Append(@, KeepAliveFrame)]
    /\ UNCHANGED <<hubVars, pc, client, cancelled, flusher, prodVars, histVars>>
    /\ UNCHANGED sessVars
    /\ UNCHANGED mqVars
    /\ UNCHANGED reqVars

\* case msg, ok := <-client
LoopRecv(c) ==
    /\ hubState = "running"
    /\ pc[c] = "loop"
    /\ LET ch == client[c] IN
       /\ mailbox[ch] # <<>> \/ ch \in closed
       /\ IF mailbox[ch] # <<>>
          THEN /\ mailbox' = [mailbox EXCEPT ![ch] = ChanRest(@)]
               /\ frames' = [frames EXCEPT ![c] =
                                Append(@, writeSSEBuffered(Head(mailbox[ch]).body))]
               /\ recvd' = [recvd EXCEPT ![c] = Append(@, Head(mailbox[ch]).seq)]
               /\ UNCHANGED <<pc, unregSent>>
          ELSE \* !ok: return; the deferred function starts its send
               /\ pc' = [pc EXCEPT ![c] = "unregister"]
               /\ unregSent' = [unregSent EXCEPT ![c] = @ + 1]
               /\ UNCHANGED <<mailbox, frames, recvd>>
    /\ UNCHANGED <<hubState, clients, closed, broadcast, made>>
    /\ UNCHANGED <<client, cancelled, flusher, ticks, prodVars>>
    /\ UNCHANGED <<accepted, nReg, unregSeen, nUnreg>>
    /\ UNCHANGED sessVars
    /\ UNCHANGED mqVars
    /\ UNCHANGED reqVars

\* the deferred h.unregister <- client meets case ch := <-h.unregister
Unregister(c) ==
    /\ hubState = "running"
    /\ pc[c] = "unregister"
    /\ HubUnregisterStep(client[c])
    /\ pc' = [pc EXCEPT ![c] = "done"]
    /\ UNCHANGED <<made, client, cancelled, flusher, ticks, frames, prodVars>>
    /\ UNCHANGED <<accepted, unregSent, recvd>>
    /\ UNCHANGED sessVars
    /\ UNCHANGED mqVars
    /\ UNCHANGED reqVars

Next ==
    \/ \E c \in Conns, canFlush \in BOOLEAN :
          Start(c, canFlush) /\ UNCHANGED reqVars
    \/ \E c \in Conns : Register(c)
    \/ \E c \in Conns : WriteConnected(c)
    \/ \E c \in Conns : Cancel(c)
    \/ \E c \in Conns : LoopCancel(c)
    \/ \E c \in Conns : LoopTick(c)
    \/ \E c \in Conns : LoopRecv(c)
    \/ \E c \in Conns : Unregister(c)
    \/ \E p \in Producers, b \in Payloads : BroadcastCall(p, b) /\ UNCHANGED <<pregd, mqVars>>
    \/ \E p \in Producers : BroadcastSend(p)
    \/ HubBroadcast

Spec == Init /\ [][Next]_vars

\* ------------------------------------------------------------------------
\* Scheduling
\* ------------------------------------------------------------------------
\* The goroutine of Hub.Run is always scheduled; a sender blocked on
\* h.broadcast waits in the channel's FIFO queue, so it is served once the
\* hub has drained the buffer often enough; a handler that is running takes
\* its next step, and its select picks among the ready cases at random, so
\* a closed Done channel is picked eventually.  Nothing makes a handler
\* take messages from its mailbox: the writes of a slow client block.
Fairness ==
    /\ WF_vars(HubBroadcast)
    /\ \A c \in Conns : WF_vars(Register(c)) /\ WF_vars(Unregister(c))
    /\ \A c \in Conns : WF_vars(WriteConnected(c)) /\ WF_vars(LoopCancel(c))
    /\ \A p \in Producers : SF_vars(BroadcastSend(p))

\* The bytes of a payload have no part in the scheduling: under Fairness
\* every Broadcast call passes PayloadJSON.
FairNext ==
    \/ \E c \in Conns, canFlush \in BOOLEAN :
          Start(c, canFlush) /\ UNCHANGED reqVars
    \/ \E c \in Conns : Register(c)
    \/ \E c \in Conns : WriteConnected(c)
    \/ \E c \in Conns : Cancel(c)
    \/ \E c \in Conns : LoopCancel(c)
    \/ \E c \in Conns : LoopTick(c)
    \/ \E c \in Conns : LoopRecv(c)
    \/ \E c \in Conns : Unregister(c)
    \/ \E p \in Producers : BroadcastCall(p, PayloadJSON) /\ UNCHANGED <<pregd, mqVars>>
    \/ \E p \in Producers : BroadcastSend(p)
    \/ HubBroadcast

FairSpec == Init /\ [][FairNext]_vars /\ Fairness

\* ------------------------------------------------------------------------
\* Hub.Run driven directly through its channels
\* ------------------------------------------------------------------------
\* A client of the hub's channels that does not follow the discipline of
\* SSEHandler: it may send an unregister request for a channel any number
\* of times.

\* ch := make(chan []byte, 25); h.register <- ch
HarnessRegister ==
    /\ hubState = "running"
    /\ made < NumConns
    /\ HubRegisterStep(NewClient(made))
    /\ made' = made + 1
    /\ UNCHANGED <<connVars, prodVars, accepted, unregSent, recvd>>
    /\ UNCHANGED sessVars
    /\ UNCHANGED mqVars
    /\ UNCHANGED reqVars

\* h.unregister <- ch for a channel made before
HarnessUnregister(ch) ==
    /\ hubState = "running"
    /\ ch <= made
    /\ nUnreg < MaxUnregisters
    /\ HubUnregisterStep(ch)
    /\ UNCHANGED <<made, connVars, prodVars, accepted, unregSent, recvd>>
    /\ UNCHANGED sessVars
    /\ UNCHANGED mqVars
    /\ UNCHANGED reqVars

\* <-ch while the buffer of ch holds a message
HarnessReceive(ch) ==
    /\ hubState = "running"
    /\ mailbox[ch] # <<>>
    /\ mailbox' = [mailbox EXCEPT ![ch] = ChanRest(@)]
    /\ UNCHANGED <<hubState, clients, closed, broadcast, made>>
    /\ UNCHANGED <<connVars, prodVars, histVars>>
    /\ UNCHANGED sessVars
    /\ UNCHANGED mqVars
    /\ UNCHANGED reqVars

HarnessNext ==
    \/ HarnessRegister
    \/ \E ch \in Handles : HarnessUnregister(ch)
    \/ \E ch \in Handles : HarnessReceive(ch)
    \/ \E p \in Producers, b \in Payloads : BroadcastCall(p, b) /\ UNCHANGED <<pregd, mqVars>>
    \/ \E p \in Producers : BroadcastSend(p)
    \/ HubBroadcast

HarnessSpec == Init /\ [][HarnessNext]_vars

\* ------------------------------------------------------------------------
\* Hub.SSEHandler with forced unregistration
\* ------------------------------------------------------------------------
\* The handlers, and a sender on h.unregister that passes the channel of a
\* registered handler, so that the hub closes a mailbox its handler still
\* reads.
ForceUnregister(c) ==
    /\ pc[c] \in {"sentinel", "loop"}
    /\ client[c] \in clients
    /\ HarnessUnregister(client[c])

ForcedNext ==
    \/ \E c \in Conns, canFlush \in BOOLEAN :
          Start(c, canFlush) /\ UNCHANGED reqVars
    \/ \E c \in Conns : Register(c)
    \/ \E c \in Conns : WriteConnected(c)
    \/ \E c \in Conns : Cancel(c)
    \/ \E c \in Conns : LoopCancel(c)
    \/ \E c \in Conns : LoopTick(c)
    \/ \E c \in Conns : LoopRecv(c)
    \/ \E c \in Conns : Unregister(c)
    \/ \E c \in Conns : ForceUnregister(c)
    \/ \E p \in Producers : BroadcastCall(p, PayloadJSON) /\ UNCHANGED <<pregd, mqVars>>
    \/ \E p \in Producers : BroadcastSend(p)
    \/ HubBroadcast

\* A receive from a closed, empty channel returns at once and writes
\* nothing, so the select of a running handler picks it eventually; the
\* goroutine of Hub.Run is always scheduled, so a handler's send on
\* h.unregister is received.  Nothing else is assumed of the scheduling.
ForcedFairness ==
    \A c \in Conns :
        /\ WF_vars(Unregister(c))
        /\ WF_vars(LoopRecv(c) /\ mailbox[client[c]] = <<>>)

ForcedSpec == Init /\ [][ForcedNext]_vars /\ ForcedFairness

\* ------------------------------------------------------------------------
\* Package session: Store
\* ------------------------------------------------------------------------
\* The callers are the goroutines of the HTTP server; each runs one method
\* of the store at a time.  A method is cut at its accesses to what the
\* callers share: the mutex, the map and the clock.

gatewayVars == <<hubVars, connVars, prodVars, histVars>>

\* whether caller h is inside a method of the store or a route handler
Busy(h) == spc[h] # "idle" \/ rpc[h] # "idle"

\* a caller that is free starts a call
SessionCall(g) ==
    /\ spc[g] = "idle"
    /\ \A h \in Callers : h < g => Busy(h)
    /\ sops < MaxOps
    /\ sops' = sops + 1

\* variant: Lock returns without waiting for the holders of the mutex
LockMuNoWait(g) ==
    /\ muWriter' = g
    /\ UNCHANGED muReaders

\* s.mu.Lock() returns
LockMu(g) ==
    /\ muWriter = NoCaller
    /\ muReaders = {}
    /\ muWriter' = g
    /\ UNCHANGED muReaders

\* s.mu.RLock() returns
RLockMu(g) ==
    /\ muWriter = NoCaller
    /\ muReaders' = muReaders \cup {g}
    /\ UNCHANGED muWriter

\* the history of an id after a Get missed it: a miss of an id that no
\* Create has stored yet is not part of the life of a session
Missed(id) == [misses EXCEPT ![id] = IF @ = "never" THEN "never" ELSE "missed"]

\* the history of an id after a Create stored it
Stored(id) ==
    [misses EXCEPT ![id] = IF @ \in {"never", "stored"} THEN "stored" ELSE "recreated"]

\* Create(u): id, err := newID() with r the outcome of rand.Read; on an
\* error return Session{}, err; else now := time.Now().UTC() and ss is built
CreateBegin(g, u, r) ==
    /\ SessionCall(g)
    /\ LET n == newID(r) IN
       IF n.err
       THEN /\ sret' = [sret EXCEPT ![g] = Result("Create", n.id, FALSE, EmptySession)]
            /\ UNCHANGED <<spc, sop, sid, sss>>
       ELSE /\ spc' = [spc EXCEPT ![g] = "create_lock"]
            /\ sop' = [sop EXCEPT ![g] = "Create"]
            /\ sid' = [sid EXCEPT ![g] = n.id]
            /\ sss' = [sss EXCEPT ![g] = NewSession(n.id, u, now)]
            /\ sret' = [sret EXCEPT ![g] = NoResult]
    /\ safter' = [safter EXCEPT ![g] = FALSE]
    /\ sfail' = [sfail EXCEPT ![g] = (r = EntropyFail)]
    /\ sdraw' = [sdraw EXCEPT ![g] = r]
    /\ UNCHANGED <<sessions, muWriter, muReaders, now, misses>>
    /\ UNCHANGED gatewayVars
    /\ UNCHANGED mqVars

\* Create: s.mu.Lock()
CreateLock(g) ==
    /\ spc[g] = "create_lock"
    /\ LockMu(g)
    /\ spc' = [spc EXCEPT ![g] = "create_store"]
    /\ UNCHANGED <<sessions, now, sop, sid, sss, sret, sops, safter, sfail, sdraw, misses>>
    /\ UNCHANGED gatewayVars
    /\ UNCHANGED mqVars
    /\ UNCHANGED reqVars

\* Create: s.sessions[id] = ss; s.mu.Unlock(); return ss, nil
CreateStore(g) ==
    /\ spc[g] = "create_store"
    /\ sessions' = MapPut(sessions, sid[g], sss[g])
    /\ muWriter' = NoCaller
    /\ sret' = [sret EXCEPT ![g] = Result("Create", sid[g], TRUE, sss[g])]
    /\ misses' = Stored(sid[g])
    /\ spc' = [spc EXCEPT ![g] = "idle"]
    /\ sop' = [sop EXCEPT ![g] = "none"]
    /\ sid' = [sid EXCEPT ![g] = <<>>]
    /\ sss' = [sss EXCEPT ![g] = EmptySession]
    /\ UNCHANGED <<muReaders, now, sops, safter, sfail, sdraw>>
    /\ UNCHANGED gatewayVars
    /\ UNCHANGED mqVars
    /\ revoked' = revoked \ {sid[g]}
    /\ UNCHANGED <<rpc, rroute, rcookie, rresp, nreq, loggedOut, rafter>>

\* Get(id) is called
GetCall(g, id) ==
    /\ SessionCall(g)
    /\ spc' = [spc EXCEPT ![g] = "get_rlock"]
    /\ sop' = [sop EXCEPT ![g] = "Get"]
    /\ sid' = [sid EXCEPT ![g] = id]
    /\ sret' = [sret EXCEPT ![g] = NoResult]
    /\ safter' = [safter EXCEPT ![g] = misses[id] \in {"missed", "recreated"}]
    /\ sfail' = [sfail EXCEPT ![g] = FALSE]
    /\ sdraw' = [sdraw EXCEPT ![g] = <<>>]
    /\ UNCHANGED <<sessions, muWriter, muReaders, now, sss, misses>>
    /\ UNCHANGED gatewayVars
    /\ UNCHANGED mqVars

\* Get: s.mu.RLock()
GetRLock(g) ==
    /\ spc[g] = "get_rlock"
    /\ RLockMu(g)
    /\ spc' = [spc EXCEPT ![g] = "get_read"]
    /\ UNCHANGED <<sessions, now, sop, sid, sss, sret, sops, safter, sfail, sdraw, misses>>
    /\ UNCHANGED gatewayVars
    /\ UNCHANGED mqVars
    /\ UNCHANGED reqVars

\* Get: ss, ok := s.sessions[id]; s.mu.RUnlock(); if !ok return Session{}, false
GetRead(g) ==
    /\ spc[g] = "get_read"
    /\ muReaders' = muReaders \ {g}
    /\ IF MapHas(sessions, sid[g])
       THEN /\ sss' = [sss EXCEPT ![g] = MapGet(sessions, sid[g], now)]
            /\ spc' = [spc EXCEPT ![g] = "get_check"]
            /\ UNCHANGED <<sop, sid, sret, misses>>
       ELSE /\ sret' = [sret EXCEPT ![g] = Result("Get", sid[g], FALSE, EmptySession)]
            /\ misses' = Missed(sid[g])
            /\ spc' = [spc EXCEPT ![g] = "idle"]
            /\ sop' = [sop EXCEPT ![g] = "none"]
            /\ sid' = [sid EXCEPT ![g] = <<>>]
            /\ UNCHANGED sss
    /\ UNCHANGED <<sessions, muWriter, now, sops, safter, sfail, sdraw>>
    /\ UNCHANGED gatewayVars
    /\ UNCHANGED mqVars
    /\ UNCHANGED reqVars

\* Get: if time.Since(ss.CreatedAt) > s.ttl call s.Delete(id), else
\* return ss, true
GetCheck(g) ==
    /\ spc[g] = "get_check"
    /\ IF Expired(sss[g], now)
       THEN /\ spc' = [spc EXCEPT ![g] = "delete_lock"]
            /\ UNCHANGED <<sop, sid, sss, sret>>
       ELSE /\ sret' = [sret EXCEPT ![g] = Result("Get", sid[g], TRUE, sss[g])]
            /\ spc' = [spc EXCEPT ![g] = "idle"]
            /\ sop' = [sop EXCEPT ![g] = "none"]
            /\ sid' = [sid EXCEPT ![g] = <<>>]
            /\ sss' = [sss EXCEPT ![g] = EmptySession]
    /\ UNCHANGED <<sessions, muWriter, muReaders, now, sops, safter, sfail, sdraw, misses>>
    /\ UNCHANGED gatewayVars
    /\ UNCHANGED mqVars
    /\ UNCHANGED reqVars

\* Delete(id) is called by a handler
DeleteCall(g, id) ==
    /\ SessionCall(g)
    /\ spc' = [spc EXCEPT ![g] = "delete_lock"]
    /\ sop' = [sop EXCEPT ![g] = "Delete"]
    /\ sid' = [sid EXCEPT ![g] = id]
    /\ sret' = [sret EXCEPT ![g] = NoResult]
    /\ safter' = [safter EXCEPT ![g] = FALSE]
    /\ sfail' = [sfail EXCEPT ![g] = FALSE]
    /\ sdraw' = [sdraw EXCEPT ![g] = <<>>]
    /\ UNCHANGED <<sessions, muWriter, muReaders, now, sss, misses>>
    /\ UNCHANGED gatewayVars
    /\ UNCHANGED mqVars

\* Delete: s.mu.Lock()
DeleteLock(g) ==
    /\ spc[g] = "delete_lock"
    /\ LockMu(g)
    /\ spc' = [spc EXCEPT ![g] = "delete_write"]
    /\ UNCHANGED <<sessions, now, sop, sid, sss, sret, sops, safter, sfail, sdraw, misses>>
    /\ UNCHANGED gatewayVars
    /\ UNCHANGED mqVars
    /\ UNCHANGED reqVars

\* Delete: delete(s.sessions, id); s.mu.Unlock(); Delete returns, and a Get
\* that called it returns Session{}, false
DeleteWrite(g) ==
    /\ spc[g] = "delete_write"
    /\ sessions' = MapDelete(sessions, sid[g])
    /\ muWriter' = NoCaller
    /\ IF sop[g] = "Get"
       THEN /\ sret' = [sret EXCEPT ![g] = Result("Get", sid[g], FALSE, EmptySession)]
            /\ misses' = Missed(sid[g])
       ELSE /\ sret' = [sret EXCEPT ![g] = Result("Delete", sid[g], TRUE, EmptySession)]
            /\ UNCHANGED misses
    /\ spc' = [spc EXCEPT ![g] = "idle"]
    /\ sop' = [sop EXCEPT ![g] = "none"]
    /\ sid' = [sid EXCEPT ![g] = <<>>]
    /\ sss' = [sss EXCEPT ![g] = EmptySession]
    /\ UNCHANGED <<muReaders, now, sops, safter, sfail, sdraw>>
    /\ UNCHANGED gatewayVars
    /\ UNCHANGED mqVars
    /\ revoked' = IF rpc[g] = "logout" THEN revoked \cup {sid[g]} ELSE revoked
    /\ UNCHANGED <<rpc, rroute, rcookie, rresp, nreq, loggedOut, rafter>>

\* the clock advances
Tick ==
    /\ now < MaxNow
    /\ now' = now + 1
    /\ UNCHANGED <<sessions, muWriter, muReaders, spc, sop, sid, sss, sret,
                   sops, safter, sfail, sdraw, misses>>
    /\ UNCHANGED gatewayVars
    /\ UNCHANGED mqVars
    /\ UNCHANGED reqVars

SessionNext ==
    \/ \E g \in Callers, u \in Users, r \in EntropyOutputs \cup {EntropyFail} :
          CreateBegin(g, u, r) /\ UNCHANGED reqVars
    \/ \E g \in Callers : CreateLock(g)
    \/ \E g \in Callers : CreateStore(g)
    \/ \E g \in Callers, id \in SessionIDs :
          GetCall(g, id) /\ UNCHANGED reqVars
    \/ \E g \in Callers : GetRLock(g)
    \/ \E g \in Callers : GetRead(g)
    \/ \E g \in Callers : GetCheck(g)
    \/ \E g \in Callers, id \in SessionIDs :
          DeleteCall(g, id) /\ UNCHANGED reqVars
    \/ \E g \in Callers : DeleteLock(g)
    \/ \E g \in Callers : DeleteWrite(g)
    \/ Tick

SessionSpec == Init /\ [][SessionNext]_vars

\* ------------------------------------------------------------------------
\* Gateway routes in front of the store and the hub
\* ------------------------------------------------------------------------
\* Each caller is a goroutine of the HTTP server running one route handler;
\* the handler calls the store and continues when the call has returned.

Routes == {"stream", "tickets"}
Bodies == {"malformed", "rejected", "accepted"}

\* a request arrives for a caller that is free
RequestStart(g, route, ck) ==
    /\ rpc[g] = "idle"
    /\ spc[g] = "idle"
    /\ \A h \in Callers : h < g => Busy(h)
    /\ nreq < MaxRequests
    /\ nreq' = nreq + 1
    /\ rroute' = [rroute EXCEPT ![g] = route]
    /\ rcookie' = [rcookie EXCEPT ![g] = ck]
    /\ rafter' = [rafter EXCEPT ![g] = ck.present /\ ck.value \in loggedOut]
    /\ UNCHANGED <<loggedOut, revoked>>

\* currentUser: c, err := r.Cookie(...); err != nil || c.Value == ""
CookieUsable(ck) == ck.present /\ ck.value # <<>>

\* variant: currentUser reports every caller as logged in
CurrentUserOKAlways(res) == TRUE

\* currentUser: ss, ok := store.Get(c.Value); the ok it returns
CurrentUserOK(res) == res.ok

\* GET /api/stream and the ticket routes: currentUser(r, sessions) up to
\* its call of store.Get, or to its return when the cookie is unusable
ReqProtected(g, route, ck) ==
    /\ RequestStart(g, route, ck)
    /\ IF CookieUsable(ck)
       THEN /\ GetCall(g, ck.value)
            /\ rpc' = [rpc EXCEPT ![g] = "auth"]
            /\ rresp' = [rresp EXCEPT ![g] = NoResponse]
       ELSE /\ rresp' = [rresp EXCEPT ![g] = Response("unauthorized", NoUser, <<>>)]
            /\ UNCHANGED <<rpc, sessVars, gatewayVars, mqVars>>

\* GET /api/stream: currentUser returned ok; hub.SSEHandler()(w, r) starts
AuthStream(g, c, canFlush) ==
    /\ rpc[g] = "auth"
    /\ spc[g] = "idle"
    /\ rroute[g] = "stream"
    /\ CurrentUserOK(sret[g])
    /\ Start(c, canFlush)
    /\ rpc' = [rpc EXCEPT ![g] = "idle"]
    /\ rresp' = [rresp EXCEPT ![g] = Response("stream", sret[g].sess.User, <<>>)]
    /\ UNCHANGED <<rroute, rcookie, nreq, loggedOut, revoked, rafter>>

\* a ticket route: currentUser returned ok; the ticket API is called with u
AuthTickets(g) ==
    /\ rpc[g] = "auth"
    /\ spc[g] = "idle"
    /\ rroute[g] = "tickets"
    /\ CurrentUserOK(sret[g])
    /\ rpc' = [rpc EXCEPT ![g] = "idle"]
    /\ rresp' = [rresp EXCEPT ![g] = Response("tickets", sret[g].sess.User, <<>>)]
    /\ UNCHANGED <<rroute, rcookie, nreq, loggedOut, revoked, rafter>>
    /\ UNCHANGED <<sessVars, gatewayVars, mqVars>>

\* currentUser returned !ok: 401 and return
AuthDenied(g) ==
    /\ rpc[g] = "auth"
    /\ spc[g] = "idle"
    /\ ~CurrentUserOK(sret[g])
    /\ rpc' = [rpc EXCEPT ![g] = "idle"]
    /\ rresp' = [rresp EXCEPT ![g] = Response("unauthorized", NoUser, <<>>)]
    /\ UNCHANGED <<rroute, rcookie, nreq, loggedOut, revoked, rafter>>
    /\ UNCHANGED <<sessVars, gatewayVars, mqVars>>

\* POST /api/auth/login up to sessions.Create(u): the body fails to decode,
\* the auth service rejects the credentials, or it returns the user u
ReqLogin(g, body, u, r) ==
    /\ RequestStart(g, "login", NoCookie)
    /\ IF body = "accepted"
       THEN /\ CreateBegin(g, u, r)
            /\ rpc' = [rpc EXCEPT ![g] = "login"]
            /\ rresp' = [rresp EXCEPT ![g] = NoResponse]
       ELSE /\ rresp' = [rresp EXCEPT ![g] =
                            Response(IF body = "malformed" THEN "invalid json"
                                     ELSE "invalid credentials", NoUser, <<>>)]
            /\ UNCHANGED <<rpc, sessVars, gatewayVars, mqVars>>

\* login after sessions.Create returned: 500, or the cookie and 200
LoginReturn(g) ==
    /\ rpc[g] = "login"
    /\ spc[g] = "idle"
    /\ rpc' = [rpc EXCEPT ![g] = "idle"]
    /\ rresp' = [rresp EXCEPT ![g] =
                    IF sret[g].ok
                    THEN Response("ok", sret[g].sess.User, sret[g].sess.ID)
                    ELSE Response("session error", NoUser, <<>>)]
    /\ UNCHANGED <<rroute, rcookie, nreq, loggedOut, revoked, rafter>>
    /\ UNCHANGED <<sessVars, gatewayVars, mqVars>>

\* POST /api/auth/logout up to sessions.Delete(c.Value), which is called
\* whenever the request has the cookie, or to the response when it has not
ReqLogout(g, ck) ==
    /\ RequestStart(g, "logout", ck)
    /\ IF ck.present
       THEN /\ DeleteCall(g, ck.value)
            /\ rpc' = [rpc EXCEPT ![g] = "logout"]
            /\ rresp' = [rresp EXCEPT ![g] = NoResponse]
       ELSE /\ rresp' = [rresp EXCEPT ![g] = Response("ok", NoUser, <<>>)]
            /\ UNCHANGED <<rpc, sessVars, gatewayVars, mqVars>>

\* logout after sessions.Delete returned: the cookie is cleared, 200
LogoutReturn(g) ==
    /\ rpc[g] = "logout"
    /\ spc[g] = "idle"
    /\ rpc' = [rpc EXCEPT ![g] = "idle"]
    /\ rresp' = [rresp EXCEPT ![g] = Response("ok", NoUser, <<>>)]
    /\ loggedOut' = loggedOut \cup {rcookie[g].value}
    /\ UNCHANGED <<rroute, rcookie, nreq, revoked, rafter>>
    /\ UNCHANGED <<sessVars, gatewayVars, mqVars>>

GatewayNext ==
    \/ \E g \in Callers, route \in Routes, ck \in Cookies : ReqProtected(g, route, ck)
    \/ \E g \in Callers, c \in Conns, canFlush \in BOOLEAN : AuthStream(g, c, canFlush)
    \/ \E g \in Callers : AuthTickets(g)
    \/ \E g \in Callers : AuthDenied(g)
    \/ \E g \in Callers, body \in Bodies, u \in Users,
          r \in EntropyOutputs \cup {EntropyFail} : ReqLogin(g, body, u, r)
    \/ \E g \in Callers : LoginReturn(g)
    \/ \E g \in Callers, ck \in Cookies : ReqLogout(g, ck)
    \/ \E g \in Callers : LogoutReturn(g)
    \/ \E g \in Callers : CreateLock(g)
    \/ \E g \in Callers : CreateStore(g)
    \/ \E g \in Callers : GetRLock(g)
    \/ \E g \in Callers : GetRead(g)
    \/ \E g \in Callers : GetCheck(g)
    \/ \E g \in Callers : DeleteLock(g)
    \/ \E g \in Callers : DeleteWrite(g)
    \/ \E c \in Conns : Register(c)
    \/ Tick

GatewaySpec == Init /\ [][GatewayNext]_vars

\* ------------------------------------------------------------------------
\* Gateway: subscribeAndBridge
\* ------------------------------------------------------------------------
\* topics := []string{...}
BridgeTopics == <<TopicTicketCreated, TopicTicketStatusUpdated, TopicTicketAssigned>>

\* c.Subscribe(topic, 1, ...): the quality of service asked for
BridgeQoS == 1

BridgeDone == Len(BridgeTopics) + 1

\* variant: the loop ends at the first subscription that fails
AfterSubscribeStop(i, ok) == IF ok THEN i + 1 ELSE BridgeDone

\* the loop goes on to the next topic whatever token.Error() returned
AfterSubscribe(i, ok) == i + 1

\* one turn of the loop: Subscribe, token.Wait(), and the line logged; ok
\* tells whether the broker granted the subscription
BridgeSubscribe(ok) ==
    /\ bpc < BridgeDone
    /\ LET topic == BridgeTopics[bpc] IN
         /\ subs' = IF ok THEN subs \cup {[topic |-> topic, qos |-> BridgeQoS]}
                    ELSE subs
         /\ blog' = Append(blog, [line |-> IF ok THEN "mqtt subscribed"
                                           ELSE "mqtt subscribe error",
                                  topic |-> topic])
    /\ bpc' = AfterSubscribe(bpc, ok)
    /\ UNCHANGED <<inbox, delivered, forwarded, unbridged, ringVars, appVars>>
    /\ UNCHANGED <<gatewayVars, sessVars, reqVars>>

\* a message with payload b is published on topic t: the broker delivers it
\* to the client if one of the client's subscriptions matches t
BrokerPublish(t, b) ==
    /\ Len(delivered) < MaxPublishes
    /\ b \in PayloadsOfCall(Len(delivered) + 1)
    /\ IF \E s \in subs : TopicMatches(s.topic, t)
       THEN /\ inbox' = Append(inbox, [topic |-> t, payload |-> b])
            /\ delivered' = Append(delivered, b)
            /\ UNCHANGED unbridged
       ELSE /\ unbridged' = IF bpc = BridgeDone THEN unbridged \cup {t}
                            ELSE unbridged
            /\ UNCHANGED <<inbox, delivered>>
    /\ UNCHANGED <<bpc, subs, blog, forwarded, ringVars, appVars>>
    /\ UNCHANGED <<gatewayVars, sessVars, reqVars>>

\* variant: the callback forwards a fixed message
CallbackArgFixed(msg) == PayloadJSON

\* the callback's argument to hub.Broadcast: msg.Payload()
CallbackArg(msg) == msg.payload

\* the client runs the callback on the oldest delivered message:
\* hub.Broadcast(msg.Payload()) is called
BridgeDispatch ==
    /\ inbox # <<>>
    /\ BroadcastCall(1, CallbackArg(Head(inbox)))
    /\ UNCHANGED pregd
    /\ inbox' = Tail(inbox)
    /\ forwarded' = Append(forwarded, praw'[1])
    /\ UNCHANGED <<bpc, subs, blog, delivered, unbridged, ringVars, appVars>>

BridgeNext ==
    \/ \E ok \in BOOLEAN : BridgeSubscribe(ok)
    \/ \E t \in PublishTopics, b \in Payloads : BrokerPublish(t, b)
    \/ BridgeDispatch
    \/ \E p \in Producers : BroadcastSend(p)
    \/ HubBroadcast
    \/ HarnessRegister
    \/ \E ch \in Handles : HarnessUnregister(ch)
    \/ \E ch \in Handles : HarnessReceive(ch)

BridgeSpec == Init /\ [][BridgeNext]_vars

\* ------------------------------------------------------------------------
\* Notifier: RingBuffer
\* ------------------------------------------------------------------------
\* NewRingBuffer(req) is called
RingNew(req) ==
    /\ rb = NoRing
    /\ rb' = NewRingBuffer(req)
    /\ rreq' = [kind |-> "call", n |-> req, env |-> <<>>]
    /\ UNCHANGED <<rmem, rsnap, rwas, radded>>
    /\ UNCHANGED <<bridgeVars, gatewayVars, sessVars, reqVars, appVars>>

\* the notifier's main with the setting cfg: rb := NewRingBuffer(bufSize)
NotifierStart(cfg) ==
    /\ rb = NoRing
    /\ rb' = NewRingBuffer(BufSize(cfg))
    /\ rreq' = [kind |-> "env", n |-> 0, env |-> cfg]
    /\ UNCHANGED <<rmem, rsnap, rwas, radded>>
    /\ UNCHANGED <<bridgeVars, gatewayVars, sessVars, reqVars, appVars>>

\* the subscription callback receives a message on topic t: rb.Add(rec)
RbAdd(t) ==
    /\ rb # NoRing
    /\ Len(radded) < rb.max + RingExtra
    /\ Len(radded) >= MaxVariedAdds => t = TopicTicketCreated
    /\ LET e == EventRecord(Len(radded) + 1, t, PayloadJSON)
           r == RingAdd(rb, rmem, e)
       IN /\ rb' = r.rb
          /\ rmem' = r.mem
          /\ radded' = Append(radded, e)
    /\ UNCHANGED <<rsnap, rwas, rreq>>
    /\ UNCHANGED <<bridgeVars, gatewayVars, sessVars, reqVars, appVars>>

\* rb.Snapshot() is called and returns
RbSnapshot ==
    /\ rb # NoRing
    /\ LET r == RingSnapshot(rb, rmem)
       IN /\ rsnap' = r.out
          /\ rmem' = r.mem
          /\ rwas' = SliceValue(r.mem, r.out)
    /\ UNCHANGED <<rb, radded, rreq>>
    /\ UNCHANGED <<bridgeVars, gatewayVars, sessVars, reqVars, appVars>>

RingNext ==
    \/ \E req \in RequestedSizes : RingNew(req)
    \/ \E cfg \in ConfigSizes : NotifierStart(cfg)
    \/ \E t \in {TopicTicketCreated, ChatTopic(1)} : RbAdd(t)
    \/ RbSnapshot

RingSpec == Init /\ [][RingNext]_vars

\* ------------------------------------------------------------------------
\* Properties
\* ------------------------------------------------------------------------
Seqs(q) == [i \in 1..Len(q) |-> q[i].seq]
Increasing(q) == \A i, j \in 1..Len(q) : i < j => q[i] < q[j]
Registered(c) == pc[c] \in {"sentinel", "loop", "unregister", "done"}
SentinelFrame ==
    <<"d", "a", "t", "a", ":", " ",
      "{", "\"", "e", "v", "e", "n", "t", "\"", ":",
      "\"", "c", "o", "n", "n", "e", "c", "t", "e", "d", "\"", "}",
      "\n", "\n">>
\* a step in which Hub.Run takes a message from h.broadcast
FanOutStep == Len(broadcast') < Len(broadcast)

\* C1: under any interleaving of the handlers' register and unregister
\* requests, the registry holds as many channels as registrations were
\* processed minus the channels for which an unregistration was processed;
\* the two sets of channels are disjoint, so no channel is counted twice and
\* the count is never negative.
C1_RegistryCount ==
    /\ Cardinality(clients) = nReg - Cardinality(unregSeen)
    /\ nReg = Cardinality({c \in Conns : Registered(c)})
    /\ nUnreg = Cardinality({c \in Conns : pc[c] = "done"})
    /\ clients \cap unregSeen = {}
    /\ clients = {client[c] : c \in {d \in Conns : Registered(d) /\ pc[d] # "done"}}
    /\ nReg >= Cardinality(unregSeen)

C1_Witness ==
    /\ nReg = 2
    /\ Cardinality(unregSeen) = 1
    /\ Cardinality(clients) = 1

\* C2: when the hub fans a message out, every registered client whose
\* mailbox has room gets the message appended, a client whose mailbox is
\* full keeps its mailbox as it is, and the fan-out never waits: whenever
\* h.broadcast holds a message the broadcast case can run, whatever the
\* state of the mailboxes.
C2_DropOnFullOnly ==
    /\ [](hubState = "running" /\ broadcast # <<>> => ENABLED HubBroadcast)
    /\ [][FanOutStep =>
            \A h \in Handles :
               mailbox'[h] =
                  IF h \in clients /\ Len(mailbox[h]) < MailboxCap
                  THEN Append(mailbox[h], Head(broadcast))
                  ELSE mailbox[h]]_vars

\* two registered clients: one still holds message 1, which filled its
\* mailbox, and the other was given message 2
C2_Witness ==
    \E g, h \in clients :
       /\ g # h
       /\ Len(mailbox[g]) = MailboxCap
       /\ \A i \in 1..Len(mailbox[g]) : mailbox[g][i].seq < accepted
       /\ mailbox[h] # <<>>
       /\ mailbox[h][Len(mailbox[h])].seq = accepted
       /\ accepted > MailboxCap
       /\ broadcast = <<>>

\* the code point a \u escape with the hex digits h stands for
CodePoint(h) ==
    IF h = <<"0", "0", "3", "c">> THEN "<"
    ELSE IF h = <<"0", "0", "3", "e">> THEN ">"
    ELSE IF h = <<"0", "0", "2", "6">> THEN "&"
    ELSE IF h = <<"f", "f", "f", "d">> THEN ReplacementChar
    ELSE "U+" \o h[1] \o h[2] \o h[3] \o h[4]

SimpleEscape(e) ==
    IF e = "n" THEN "\n"
    ELSE IF e = "r" THEN "\r"
    ELSE IF e = "t" THEN "\t"
    ELSE IF e \in {"b", "f"} THEN "\\" \o e
    ELSE e

\* the text a JSON string with the bytes s between its quotes stands for
RECURSIVE Unescape(_)
Unescape(s) ==
    IF s = <<>> THEN <<>>
    ELSE IF Head(s) = "\\" /\ Len(s) >= 6 /\ s[2] = "u"
         THEN <<CodePoint(SubSeq(s, 3, 6))>> \o Unescape(SubSeq(s, 7, Len(s)))
    ELSE IF Head(s) = "\\" /\ Len(s) >= 2
         THEN <<SimpleEscape(s[2])>> \o Unescape(SubSeq(s, 3, Len(s)))
    ELSE <<Head(s)>> \o Unescape(Tail(s))

\* body is {"event":"raw","payload":<one JSON string>}
IsRawEnvelope(body) ==
    /\ Len(body) >= Len(EnvelopeHead) + 3
    /\ SubSeq(body, 1, Len(EnvelopeHead)) = EnvelopeHead
    /\ body[Len(body)] = "}"
    /\ ScanString(body, Len(EnvelopeHead) + 1) = Len(body)

\* the text of the payload member of such an envelope
RawPayload(body) ==
    Unescape(SubSeq(body, Len(EnvelopeHead) + 2, Len(body) - 2))

\* s with every byte that is not UTF-8 replaced by U+FFFD
ToValidUTF8(s) ==
    [i \in 1..Len(s) |-> IF s[i] = BadByte THEN ReplacementChar ELSE s[i]]

HelloEnvelope ==
    <<"{", "\"", "e", "v", "e", "n", "t", "\"", ":", "\"", "r", "a", "w", "\"", ",",
      "\"", "p", "a", "y", "l", "o", "a", "d", "\"", ":",
      "\"", "h", "e", "l", "l", "o", "\"", "}">>

\* the messages in the mailboxes
InMailboxes ==
    UNION {{mailbox[h][i] : i \in 1..Len(mailbox[h])} : h \in Handles}

\* C4 as stated: every message in a mailbox is valid JSON, a payload that is
\* valid JSON is delivered unchanged, any other payload p is delivered as
\* the envelope whose payload member is the string p, and no mailbox holds
\* a message twice.
C4_EnvelopeCarriesPayload ==
    /\ \A m \in InMailboxes :
          /\ Valid(m.body)
          /\ Valid(m.arg) => m.body = m.arg
          /\ ~Valid(m.arg) => IsRawEnvelope(m.body) /\ RawPayload(m.body) = m.arg
    /\ \A h \in Handles : Increasing(Seqs(mailbox[h]))

\* C4 as amended: the payload member is the string p in which every byte
\* that is not valid UTF-8 has been replaced by U+FFFD; the fan-out of a
\* message appends it once to the mailbox of every registered client that
\* has room.
C4_EnvelopeCarriesUTF8Payload ==
    /\ [](\A m \in InMailboxes :
            /\ Valid(m.body)
            /\ Valid(m.arg) => m.body = m.arg
            /\ ~Valid(m.arg) =>
                  /\ IsRawEnvelope(m.body)
                  /\ RawPayload(m.body) = ToValidUTF8(m.arg)
            /\ m.arg = PayloadHello => m.body = HelloEnvelope)
    /\ [](\A h \in Handles : Increasing(Seqs(mailbox[h])))
    /\ [][FanOutStep =>
            \A h \in clients :
               Len(mailbox[h]) < MailboxCap =>
                  mailbox'[h] = Append(mailbox[h], Head(broadcast))]_vars

\* two registered clients hold the same wrapped message
C4_Witness ==
    \E g, h \in clients :
       /\ g # h
       /\ mailbox[g] # <<>> /\ mailbox[h] # <<>>
       /\ mailbox[g][1] = mailbox[h][1]
       /\ mailbox[g][1].arg = PayloadBinary

C6_UnregisterOnce ==
    \A c \in Conns :
       /\ unregSent[c] = IF pc[c] \in {"unregister", "done"} THEN 1 ELSE 0
       /\ pc[c] = "done" => client[c] \notin clients /\ client[c] \in closed
       /\ pc[c] \in {"sentinel", "loop", "unregister"} =>
             client[c] \in clients /\ client[c] \notin closed

C6_Witness ==
    /\ \A c \in Conns : pc[c] = "done"
    /\ clients = {}
    /\ nReg = NumConns

\* C8: the first frame a handler writes is the connected sentinel, and
\* before it has written the sentinel it has written nothing, whatever its
\* mailbox holds.
C8_SentinelFirst ==
    \A c \in Conns :
       /\ frames[c] # <<>> => frames[c][1] = SentinelFrame
       /\ pc[c] \in {"idle", "unsupported", "register", "sentinel"} => frames[c] = <<>>
       /\ pc[c] \in {"loop", "unregister", "done"} => frames[c] # <<>>

\* a broadcast has reached the mailbox of a registered handler that has not
\* yet written its sentinel
C8_Witness ==
    \E c \in Conns :
       /\ pc[c] = "sentinel"
       /\ mailbox[client[c]] # <<>>
       /\ frames[c] = <<>>

\* C10: the handlers' channels are pairwise distinct, a channel enters the
\* registry only if it was never there before, and an unregistered channel
\* never enters it again.
C10_FreshHandles ==
    /\ [](\A c, d \in Conns :
             c # d /\ client[c] # NoHandle => client[c] # client[d])
    /\ [](clients \cap closed = {})
    /\ [][\A h \in Handles :
             h \in clients' /\ h \notin clients =>
                /\ h \notin unregSeen
                /\ h \notin closed
                /\ Cardinality(clients) + Cardinality(unregSeen) = nReg]_vars

C10_Witness ==
    /\ clients = {2}
    /\ closed = {1}
    /\ client[1] = 1
    /\ client[2] = 2

\* C3: every Broadcast call returns: a caller that has reached its send on
\* h.broadcast completes it, although nothing makes any handler empty its
\* mailbox or leave.
C3_BroadcastReturns ==
    \A p \in Producers : (ppc[p] = "send") ~> (ppc[p] = "idle")

\* a caller waits on the full h.broadcast while a registered client's
\* mailbox is full
C3_Witness ==
    \E p \in Producers :
       /\ ppc[p] = "send"
       /\ Len(broadcast) = BroadcastCap
       /\ \E h \in clients : Len(mailbox[h]) = MailboxCap

\* C7 as stated: after the cancellation signal has fired, a handler in its
\* loop writes no further frame.
C7_NoFrameAfterCancel ==
    [][\A c \in Conns :
          cancelled[c] /\ pc[c] = "loop" => frames'[c] = frames[c]]_vars

\* C7 as amended: after its select has taken the cancellation case a
\* handler writes no further frame, and every handler whose cancellation
\* signal has fired eventually finishes with its channel out of the
\* registry and closed.
C7_CancelExits ==
    /\ [][\A c \in Conns :
             pc[c] \in {"unregister", "done"} => frames'[c] = frames[c]]_vars
    /\ \A c \in Conns :
          cancelled[c] ~>
             (pc[c] = "done" /\ client[c] \notin clients /\ client[c] \in closed)

\* a handler that wrote frames, was cancelled and has finished
C7_Witness ==
    \E c \in Conns :
       /\ cancelled[c]
       /\ pc[c] = "done"
       /\ Len(frames[c]) > 1
       /\ client[c] \in closed

\* C9: an unregister request for a channel for which one was processed
\* before changes neither the registry nor any channel, and the hub keeps
\* running.
C9_SecondUnregisterNoOp ==
    /\ [](hubState = "running")
    /\ [][nUnreg' = nUnreg + 1 /\ unregSeen' = unregSeen =>
            UNCHANGED <<clients, closed, mailbox, broadcast, hubState>>]_vars

\* a second unregister request has been processed while another client is
\* registered and holds a message
C9_Witness ==
    /\ nUnreg > Cardinality(unregSeen)
    /\ \E h \in clients : mailbox[h] # <<>>
    /\ closed # {}

\* C11: the registry is owned by Hub.Run.  Every step that changes it is one
\* case of Hub.Run's select handling one request: a register case that adds
\* exactly the channel received, or an unregister case that removes exactly
\* the channel received; never both in one step.  A step of a Broadcast
\* caller changes only h.broadcast: it leaves the registry, every client
\* channel and the set of closed channels alone, and so does every step of a
\* handler that is not a rendezvous with Hub.Run.
C11_RegistryOwnedByRun ==
    [][/\ clients' # clients =>
            \/ /\ nReg' = nReg + 1
               /\ nUnreg' = nUnreg
               /\ \E ch \in Handles : ch \notin clients /\ clients' = clients \cup {ch}
            \/ /\ nUnreg' = nUnreg + 1
               /\ nReg' = nReg
               /\ \E ch \in clients : clients' = clients \ {ch}
       /\ (ppc' # ppc \/ calls' # calls) => UNCHANGED <<clients, mailbox, closed>>
       /\ (nReg' = nReg /\ nUnreg' = nUnreg) => UNCHANGED <<clients, closed>>
      ]_vars

\* the registry has been changed by a register and by an unregister case
\* while a Broadcast caller is inside its call and a client is registered
C11_Witness ==
    /\ nReg >= 2
    /\ nUnreg >= 1
    /\ clients # {}
    /\ \E p \in Producers : ppc[p] = "send"

\* C12: a request whose response writer has no flush primitive is answered
\* with the failure and the handler returns at once: it makes no channel,
\* registers nothing, writes no frame, sends no unregister request and takes
\* no further step; the step that rejects it leaves the hub and every
\* channel as they were.  Channels are made, and requests processed by
\* Hub.Run, only for handlers whose writer can flush.
C12_UnsupportedReturnsEarly ==
    /\ [](\A c \in Conns : flusher[c] = "no" =>
             /\ pc[c] = "unsupported"
             /\ client[c] = NoHandle
             /\ frames[c] = <<>>
             /\ unregSent[c] = 0
             /\ recvd[c] = <<>>)
    /\ [](made = Cardinality({c \in Conns : flusher[c] = "yes"}))
    /\ [](clients \cup closed \cup unregSeen
             \subseteq {client[c] : c \in {d \in Conns : flusher[d] = "yes"}})
    /\ [](NoHandle \notin clients)
    /\ [](nReg <= Cardinality({c \in Conns : flusher[c] = "yes"}))
    /\ [][\A c \in Conns :
             flusher[c] # "no" /\ flusher'[c] = "no" =>
                UNCHANGED <<hubVars, histVars, prodVars>>]_vars

\* one request was rejected for want of a flush primitive while another
\* handler is registered and holds a broadcast message in its mailbox
C12_Witness ==
    \E c, d \in Conns :
       /\ flusher[c] = "no"
       /\ pc[c] = "unsupported"
       /\ pc[d] = "loop"
       /\ client[d] \in clients
       /\ mailbox[client[d]] # <<>>

\* C13: a client that registered, got the sentinel and a broadcast and was
\* then cancelled leaves nothing behind.  Hub.Run never panics; a closed
\* channel is never in the registry, so no fan-out sends on the channel of a
\* departed client and the buffer of a closed channel never grows; a handler
\* that has finished is out of the registry, so the registry holds exactly
\* the handlers between their registration and their unregistration, as
\* many as before the departed client came; and a Broadcast call pending
\* while a client has departed returns.
C13_DepartureThenBroadcast ==
    /\ [](hubState = "running")
    /\ [](clients \cap closed = {})
    /\ [](\A c \in Conns :
             pc[c] = "done" => client[c] \notin clients /\ client[c] \in closed)
    /\ [](Cardinality(clients) =
             Cardinality({c \in Conns : pc[c] \in {"sentinel", "loop", "unregister"}}))
    /\ [][\A h \in closed : Len(mailbox'[h]) <= Len(mailbox[h])]_vars
    /\ \A p \in Producers :
          (ppc[p] = "send" /\ \E c \in Conns : pc[c] = "done") ~> (ppc[p] = "idle")

\* a handler wrote the sentinel and a broadcast, was cancelled and has
\* finished, and a message sent since then waits in h.broadcast for the
\* fan-out while another client is registered
C13_Witness ==
    \E c \in Conns :
       /\ pc[c] = "done"
       /\ cancelled[c]
       /\ Len(frames[c]) >= 2
       /\ frames[c][1] = SentinelFrame
       /\ recvd[c] # <<>>
       /\ broadcast # <<>>
       /\ broadcast[1].seq > recvd[c][Len(recvd[c])]
       /\ mailbox[client[c]] = <<>>
       /\ clients # {}

\* the sequence numbers of the messages that reached a client: those in
\* the client channels and those the handlers took from them
Delivered ==
    UNION {{mailbox[h][i].seq : i \in 1..Len(mailbox[h])} : h \in Handles}
       \cup UNION {{recvd[c][i] : i \in 1..Len(recvd[c])} : c \in Conns}

\* C14: the broadcast case of Hub.Run with an empty registry takes the
\* message from h.broadcast and does nothing else: the registry stays
\* empty, no channel is made, written or closed.  The message is kept
\* nowhere: a channel is empty when it enters the registry, a channel's
\* buffer grows only by the message being fanned out while the channel is
\* registered, and a message still waiting in h.broadcast has reached no
\* client, so a client that registers later never gets an earlier message.
C14_EmptyRegistryBroadcast ==
    /\ [][FanOutStep /\ clients = {} =>
            /\ broadcast' = Tail(broadcast)
            /\ UNCHANGED <<hubState, clients, mailbox, closed, made>>
            /\ UNCHANGED <<connVars, prodVars, histVars>>]_vars
    /\ [][\A h \in Handles :
             h \notin clients /\ h \in clients' => mailbox'[h] = <<>>]_vars
    /\ [][\A h \in Handles :
             Len(mailbox'[h]) > Len(mailbox[h]) =>
                /\ FanOutStep
                /\ h \in clients
                /\ mailbox'[h] = Append(mailbox[h], Head(broadcast))]_vars
    /\ [](\A i \in 1..Len(broadcast) : broadcast[i].seq \notin Delivered)

\* the one message sent so far was fanned out while the registry was empty;
\* the only client ever registered came afterwards and has received nothing
C14_Witness ==
    /\ accepted = 1
    /\ broadcast = <<>>
    /\ nReg = 1
    /\ nUnreg = 0
    /\ \E c \in Conns :
          /\ pc[c] = "loop"
          /\ clients = {client[c]}
          /\ mailbox[client[c]] = <<>>
          /\ recvd[c] = <<>>

\* a step in which caller g returns from Get
GetReturns(g) == sop[g] = "Get" /\ spc'[g] = "idle"

\* C15: Get(id) returns the stored session exactly when the map holds an
\* entry for id at the read and the clock minus the entry's CreatedAt is at
\* most the ttl at the comparison.  A read that finds no entry returns the
\* miss at once, and only then; a comparison returns the hit with the entry
\* read exactly when the age is at most the ttl (equal included), and
\* otherwise goes on to the delete, after which Get returns a miss.
C15_GetHitIffFresh ==
    [][\A g \in Callers :
          /\ spc[g] = "get_read" /\ spc'[g] # "get_read" =>
                IF sid[g] \in DOMAIN sessions
                THEN /\ spc'[g] = "get_check"
                     /\ sss'[g] = sessions[sid[g]]
                ELSE /\ GetReturns(g)
                     /\ sret'[g] = Result("Get", sid[g], FALSE, EmptySession)
          /\ spc[g] = "get_check" /\ spc'[g] # "get_check" =>
                IF now - sss[g].CreatedAt <= TTL
                THEN /\ GetReturns(g)
                     /\ sret'[g] = Result("Get", sid[g], TRUE, sss[g])
                ELSE /\ spc'[g] = "delete_lock"
                     /\ sop'[g] = "Get"
          /\ GetReturns(g) /\ spc[g] = "delete_write" =>
                /\ now - sss[g].CreatedAt > TTL
                /\ sret'[g] = Result("Get", sid[g], FALSE, EmptySession)
          /\ GetReturns(g) => spc[g] \in {"get_read", "get_check", "delete_write"}
      ]_vars

\* a Get has returned a session whose age is exactly the ttl, and another
\* Get that read the same entry is about to compare the same age
C15_Witness ==
    \E g, h \in Callers :
       /\ sret[g].op = "Get"
       /\ sret[g].ok
       /\ now - sret[g].sess.CreatedAt = TTL
       /\ spc[h] = "get_check"
       /\ sss[h] = sret[g].sess

\* the entries of the map m under the ids other than id
OtherEntries(m, id) == [x \in DOMAIN m \ {id} |-> m[x]]

\* C16: a Get that found its entry older than the ttl returns a miss, and
\* when it returns the map has no entry for its id.  A Get changes the map
\* in no other step, so a Get that finds no entry (the second Get) returns
\* its miss with the map as it found it; and no step of a Get changes the
\* entry of any other id.
C16_ExpiredGetRemoves ==
    [][\A g \in Callers :
          /\ GetReturns(g) /\ spc[g] = "delete_write" =>
                /\ sret'[g].op = "Get"
                /\ ~sret'[g].ok
                /\ sret'[g].sess = EmptySession
                /\ sid[g] \notin DOMAIN sessions'
          /\ sop[g] = "Get" /\ spc'[g] # spc[g] =>
                /\ OtherEntries(sessions', sid[g]) = OtherEntries(sessions, sid[g])
                /\ spc[g] # "delete_write" => sessions' = sessions
          /\ spc[g] = "get_read" /\ spc'[g] # spc[g] /\ sid[g] \notin DOMAIN sessions =>
                /\ GetReturns(g)
                /\ ~sret'[g].ok
                /\ sessions' = sessions
      ]_vars

\* a Get has removed an expired entry and returned its miss; a second Get
\* for the same id, which read the entry before, is about to delete again;
\* the entry of another session is still in the map
C16_Witness ==
    \E g, h \in Callers :
       /\ sret[g].op = "Get"
       /\ ~sret[g].ok
       /\ spc[h] = "delete_write"
       /\ sop[h] = "Get"
       /\ sid[h] = sret[g].id
       /\ sid[h] \notin DOMAIN sessions
       /\ sessions # [x \in {} |-> EmptySession]

CreateStores(g) == spc[g] = "create_store" /\ spc'[g] = "idle"

\* C18: entries are written once.  The store of Create puts in the map the
\* session it built and returns that same session; after that an entry
\* only disappears: no step of a Get or a Delete and no advance of the clock
\* changes an entry that stays, a Get that hits leaves the whole map as it
\* is, and the session a hit returns is field for field the entry read: its
\* key as ID, a principal given to Create and the CreatedAt set by Create,
\* never later than CreatedAt + ttl at the comparison however often the
\* entry was read before.
C18_HitLeavesStoreAlone ==
    /\ [](\A id \in DOMAIN sessions :
             /\ sessions[id].ID = id
             /\ sessions[id].User \in Users
             /\ sessions[id].CreatedAt \in StartTime..now)
    /\ [][\A g \in Callers :
             /\ CreateStores(g) =>
                   /\ sessions'[sid[g]] = sss[g]
                   /\ sret'[g] = Result("Create", sid[g], TRUE, sss[g])
                   /\ OtherEntries(sessions', sid[g]) = OtherEntries(sessions, sid[g])
             /\ spc[g] = "get_read" /\ spc'[g] = "get_check" =>
                   /\ sss'[g] = sessions[sid[g]]
                   /\ sessions' = sessions
             /\ GetReturns(g) /\ sret'[g].ok =>
                   /\ sret'[g].sess = sss[g]
                   /\ sret'[g].id = sss[g].ID
                   /\ now <= sss[g].CreatedAt + TTL
                   /\ sessions' = sessions]_vars
    /\ [][(\A g \in Callers : ~CreateStores(g)) =>
             \A id \in DOMAIN sessions \cap DOMAIN sessions' :
                sessions'[id] = sessions[id]]_vars

\* two Gets have returned the same session, the clock is at its expiry
\* instant, and the map still holds the entry as Create stored it
C18_Witness ==
    \E g, h \in Callers :
       /\ g # h
       /\ sret[g].op = "Get" /\ sret[g].ok
       /\ sret[h].op = "Get" /\ sret[h].ok
       /\ sret[g] = sret[h]
       /\ sret[g].id \in DOMAIN sessions
       /\ sessions[sret[g].id] = sret[g].sess
       /\ now = sret[g].sess.CreatedAt + TTL

\* a step in which caller g executes the delete of Delete
DeleteWrites(g) == spc[g] = "delete_write" /\ spc'[g] = "idle"

\* C19: the delete of Delete(id) looks neither at the entry nor at the
\* clock: afterwards the map has no entry for id and every other entry is
\* as before, so a Delete of an absent id leaves the map as it is; deleting
\* from any map the store reaches is idempotent.  No other step of Delete
\* touches the map.
C19_DeleteIdempotent ==
    /\ [][\A g \in Callers :
             /\ DeleteWrites(g) =>
                   /\ sid[g] \notin DOMAIN sessions'
                   /\ OtherEntries(sessions', sid[g]) = OtherEntries(sessions, sid[g])
                   /\ DOMAIN sessions' = DOMAIN sessions \ {sid[g]}
                   /\ sid[g] \notin DOMAIN sessions => sessions' = sessions
             /\ sop[g] = "Delete" /\ spc'[g] # spc[g] /\ ~DeleteWrites(g) =>
                   sessions' = sessions]_vars
    /\ [](\A id \in SessionIDs :
             /\ MapDelete(MapDelete(sessions, id), id) = MapDelete(sessions, id)
             /\ id \notin DOMAIN MapDelete(sessions, id)
             /\ OtherEntries(MapDelete(sessions, id), id) = OtherEntries(sessions, id))

\* a Delete has removed a stored session and returned; a second Delete of
\* the same id holds the lock and is about to delete the absent id, while
\* the entry of another session is in the map
C19_Witness ==
    \E g, h \in Callers :
       /\ sret[g].op = "Delete"
       /\ spc[h] = "delete_write"
       /\ sop[h] = "Delete"
       /\ sid[h] = sret[g].id
       /\ sid[h] \notin DOMAIN sessions
       /\ misses[sid[h]] = "stored"
       /\ sessions # [x \in {} |-> EmptySession]

\* the ids newID can return: 64 hexadecimal digits
HexIDs == SessionIDs \ {BogusID}

\* C20: a call of Create whose rand.Read failed has returned the error with
\* Session{} and has stored nothing, and no Create returns an error
\* otherwise; no step that starts a call changes the map.  A Create whose
\* rand.Read succeeded builds {id, principal, now} with id the 64 hex
\* digits of the bytes read, stores it under id leaving every other entry
\* alone, and returns it; and a Get that read that entry and compares
\* within the ttl returns it.
C20_CreateStoresOrFails ==
    /\ [](\A g \in Callers :
             /\ sfail[g] =>
                   /\ spc[g] = "idle"
                   /\ sret[g] = Result("Create", <<>>, FALSE, EmptySession)
             /\ sret[g].op = "Create" => (sret[g].ok <=> ~sfail[g])
             /\ sret[g].op = "Create" /\ sret[g].ok =>
                   /\ sret[g].id \in HexIDs
                   /\ Len(sret[g].id) = 2 * IDBytes
                   /\ sret[g].sess.ID = sret[g].id
                   /\ sret[g].sess.User \in Users
             /\ sop[g] = "Create" =>
                   /\ ~sfail[g]
                   /\ sid[g] \in HexIDs
                   /\ sss[g].ID = sid[g]
                   /\ sss[g].User \in Users)
    /\ [][sops' # sops => sessions' = sessions]_vars
    /\ [][\A g \in Callers :
             /\ sop[g] = "none" /\ sop'[g] = "Create" => sss'[g].CreatedAt = now
             /\ CreateStores(g) =>
                   /\ DOMAIN sessions' = DOMAIN sessions \cup {sid[g]}
                   /\ sessions'[sid[g]] = sss[g]
                   /\ OtherEntries(sessions', sid[g]) = OtherEntries(sessions, sid[g])
                   /\ sret'[g] = Result("Create", sid[g], TRUE, sss[g])
             /\ /\ spc[g] = "get_check"
                /\ spc'[g] # spc[g]
                /\ now <= sss[g].CreatedAt + TTL
                => sret'[g] = Result("Get", sid[g], TRUE, sss[g])]_vars

\* one Create has failed for want of entropy and stored nothing; another
\* has stored its session, which is the only entry of the map and which a
\* Get has read and is about to compare within the ttl
C20_Witness ==
    \E g, h \in Callers :
       /\ sfail[g]
       /\ sret[g].op = "Create"
       /\ ~sret[g].ok
       /\ spc[h] = "get_check"
       /\ Cardinality(DOMAIN sessions) = 1
       /\ sid[h] \in DOMAIN sessions
       /\ sss[h] = sessions[sid[h]]
       /\ now <= sss[h].CreatedAt + TTL

\* the callers between Lock and Unlock, about to write the map
MapWriters == {g \in Callers : spc[g] \in {"create_store", "delete_write"}}
\* the callers between RLock and RUnlock, about to read the map
MapReaders == {g \in Callers : spc[g] = "get_read"}

\* C21: at most one caller is inside a write of the map (the insert of
\* Create, the delete of Delete, the delete of an expired Get), and while
\* one is, no caller is inside a read; readers may be inside together.  The
\* callers inside are exactly the holders of the mutex, and the map changes
\* only in the step of the caller that holds it for writing.
C21_WritesExclusive ==
    /\ [](Cardinality(MapWriters) <= 1)
    /\ [](MapWriters # {} => MapReaders = {})
    /\ [](MapWriters = IF muWriter = NoCaller THEN {} ELSE {muWriter})
    /\ [](MapReaders = muReaders)
    /\ [][sessions' # sessions =>
            /\ muWriter \in MapWriters
            /\ muReaders = {}
            /\ spc'[muWriter] = "idle"
            /\ muWriter' = NoCaller]_vars

\* a Get that found its entry expired holds the mutex for its delete while
\* a Create and nobody else waits for it
C21_Witness ==
    \E g, h \in Callers :
       /\ spc[g] = "delete_write"
       /\ sop[g] = "Get"
       /\ spc[h] = "create_lock"
       /\ muWriter = g
       /\ sid[g] \in DOMAIN sessions

\* the value of a hexadecimal digit, and the bytes a string of digits spells
HexValue(c) == CHOOSE n \in 0..15 : HexTable[n + 1] = c
DecodeString(id) ==
    [i \in 1..(Len(id) \div 2) |-> 16 * HexValue(id[2 * i - 1]) + HexValue(id[2 * i])]

\* caller g's last call was a Create that returned a session
Created(g) == sret[g].op = "Create" /\ sret[g].ok

Unauthorized == Response("unauthorized", NoUser, <<>>)

\* caller g's protected request is handed to the stream or a ticket operation
Admitted(g) ==
    /\ rpc[g] = "auth"
    /\ rpc'[g] = "idle"
    /\ rresp'[g].status \in Routes

\* C23: a request is admitted to the event stream or to a ticket operation
\* only if Store.Get hit for the id in its cookie; a missing cookie, an empty
\* cookie value, an unknown id and an expired id all receive the same
\* unauthorized response, and none of them starts a stream handler, registers
\* a client or reaches a ticket operation.
C23_AdmittedOnlyOnGetHit ==
    [][/\ \A g \in Callers :
            /\ Admitted(g) =>
                 /\ CookieUsable(rcookie[g])
                 /\ sret[g] = Result("Get", rcookie[g].value, TRUE, sret[g].sess)
                 /\ sret[g].sess.ID = rcookie[g].value
                 /\ rresp'[g] = Response(rroute[g], sret[g].sess.User, <<>>)
            /\ (rpc[g] = "idle" /\ rpc'[g] = "idle" /\ nreq' # nreq
                  /\ rroute'[g] \in Routes /\ ~CookieUsable(rcookie'[g]))
                 => /\ rresp'[g] = Unauthorized
                    /\ UNCHANGED <<sessions, gatewayVars>>
            /\ (rpc[g] = "auth" /\ rpc'[g] = "idle" /\ ~sret[g].ok)
                 => /\ rresp'[g] = Unauthorized
                    /\ UNCHANGED <<sessions, gatewayVars>>
       /\ (\E c \in Conns : pc[c] = "idle" /\ pc'[c] # "idle")
            => \E g \in Callers : Admitted(g) /\ rroute[g] = "stream"
       /\ clients' # clients
            => \E c \in Conns : pc[c] = "register"]_vars

C23_Witness ==
    \E g, h \in Callers :
        /\ rresp[g].status = "stream"
        /\ rresp[h] = Unauthorized
        /\ rcookie[h] \in {NoCookie, Cookie(<<>>)}
        /\ clients # {}

\* caller g's login request is answered without a call of the store
LoginRefused(g) ==
    /\ rpc' = rpc
    /\ nreq' # nreq
    /\ rroute'[g] = "login"
    /\ rresp'[g].status \in {"invalid json", "invalid credentials"}

BridgeLogged(line) ==
    {blog[i].topic : i \in {j \in 1..Len(blog) : blog[j].line = line}}

\* C25: subscribeAndBridge handles the topics one at a time in the order of
\* its list: each turn logs one line for its topic and goes on to the next
\* topic whether or not the subscription was granted; a failure adds no
\* subscription and changes nothing else, and after startup a lifecycle
\* topic is without a bridge exactly if its own subscription failed.
C25_FailedSubscriptionOnlyLogged ==
    [][/\ bpc' # bpc =>
            /\ bpc' = bpc + 1
            /\ blog' = Append(blog, blog'[bpc])
            /\ blog'[bpc].topic = BridgeTopics[bpc]
            /\ IF blog'[bpc].line = "mqtt subscribe error"
               THEN UNCHANGED <<subs, inbox, gatewayVars>>
               ELSE subs' = subs \cup {[topic |-> BridgeTopics[bpc], qos |-> BridgeQoS]}
       /\ Len(blog') = bpc' - 1
       /\ {s.topic : s \in subs'} = BridgeLogged("mqtt subscribed")'
       /\ unbridged' \cap {BridgeTopics[i] : i \in 1..Len(BridgeTopics)}
             \subseteq BridgeLogged("mqtt subscribe error")'
       /\ (bpc = BridgeDone /\ delivered' # delivered)
             => inbox'[Len(inbox')].topic \notin BridgeLogged("mqtt subscribe error")]_vars

C25_Witness ==
    /\ bpc = BridgeDone
    /\ blog[1].line = "mqtt subscribed"
    /\ blog[2].line = "mqtt subscribe error"
    /\ blog[3].line = "mqtt subscribed"
    /\ unbridged = {TopicTicketStatusUpdated}
    /\ Len(delivered) = MaxPublishes

\* the payloads of the messages waiting in the client
InboxPayloads == [i \in 1..Len(inbox) |-> inbox[i].payload]

\* C26: the callback runs once for each delivered message, oldest first, and
\* calls Hub.Broadcast with that message's payload: the arguments of the
\* Broadcast calls made so far, followed by the payloads still waiting, are
\* the delivered payloads in order of delivery, and there are no other calls.
\* The step that makes a call changes nothing of the hub: not the registry,
\* not a mailbox, not the hub's broadcast channel.
C26_ForwardedOnceInOrder ==
    [][/\ forwarded' \o InboxPayloads' = delivered'
       /\ calls' = Len(forwarded')
       /\ forwarded' # forwarded =>
            /\ inbox # <<>>
            /\ forwarded' = Append(forwarded, Head(inbox).payload)
            /\ praw'[1] = Head(inbox).payload
            /\ inbox' = Tail(inbox)
            /\ UNCHANGED <<hubVars, delivered>>]_vars

C26_Witness ==
    /\ Len(forwarded) = 2
    /\ forwarded = delivered
    /\ forwarded[1] # forwarded[2]
    /\ accepted = 2
    /\ broadcast = <<>>
    /\ \E ch \in clients : Len(mailbox[ch]) = MailboxCap /\ mailbox[ch][1].seq = 1

\* C27 as stated: once startup has subscribed every topic of the bridge, a message
\* published on a lifecycle topic or on a per-ticket chat topic is delivered
\* to the bridge: no such publish finds the client without a matching
\* subscription.
C27_ChatTopicsBridged ==
    (bpc = BridgeDone /\ BridgeLogged("mqtt subscribe error") = {})
        => unbridged = {}

\* the last n elements of s, or all of s when it has fewer
LastN(s, n) == SubSeq(s, (IF Len(s) > n THEN Len(s) - n ELSE 0) + 1, Len(s))

\* the capacity N the buffer is to have for what was asked for
ExpectedMax(rq) ==
    IF rq.kind = "call" THEN (IF rq.n > 0 THEN rq.n ELSE 50)
    ELSE IF rq.env = <<"1">> THEN 1
    ELSE IF rq.env = <<"2">> THEN 2
    ELSE 50

\* C28: a buffer made for capacity N (50 when what was asked for is not a
\* positive number) never holds more than N events, and after k Adds it holds
\* exactly the last min(k, N) events added, in arrival order; Snapshot returns
\* exactly those events, and the events of a returned snapshot stay what they
\* were when it was returned, whatever is added afterwards.
C28_RingKeepsLastN ==
    [][/\ rb' # NoRing =>
            /\ rb'.max = ExpectedMax(rreq')
            /\ rb'.arr.len <= rb'.max
            /\ Len(rmem'[rb'.arr.array]) <= rb'.max
            /\ rb'.arr.len = IF Len(radded') < rb'.max THEN Len(radded') ELSE rb'.max
            /\ SliceValue(rmem', rb'.arr) = LastN(radded', rb'.max)
       /\ SliceValue(rmem', rsnap') = rwas'
       /\ (rsnap' # rsnap \/ rwas' # rwas) =>
            /\ radded' = radded
            /\ rwas' = LastN(radded, rb.max)
            /\ rsnap'.array # rb.arr.array]_vars

C28_Witness ==
    /\ rreq.kind = "call"
    /\ rreq.n <= 0
    /\ rb.max = DefaultMax
    /\ Len(radded) = DefaultMax + RingExtra
    /\ Len(rwas) = DefaultMax
    /\ rwas[1] = radded[1]
    /\ SliceValue(rmem, rsnap) = rwas
    /\ SliceValue(rmem, rb.arr)[1] = radded[RingExtra + 1]

\* handler c is in its loop and its mailbox is closed and drained
FindsClosed(c) ==
    /\ pc[c] = "loop"
    /\ client[c] \in closed
    /\ mailbox[client[c]] = <<>>

\* C29: a handler whose mailbox was closed by an unregistration it did not
\* ask for leaves its loop on the receive that reports the closed channel
\* without writing a frame; the hub takes the handler's own, deferred request
\* for the channel it has already removed and changes neither the registry
\* nor any channel; and a handler that finds its mailbox closed and drained
\* reaches its end.
C29_ClosedMailboxEndsHandler ==
    /\ [][\A c \in Conns :
            /\ (FindsClosed(c) /\ ~cancelled[c] /\ pc'[c] # "loop")
                 => /\ pc'[c] = "unregister"
                    /\ frames'[c] = frames[c]
                    /\ recvd'[c] = recvd[c]
            /\ (pc[c] = "unregister" /\ pc'[c] # "unregister" /\ client[c] \in closed)
                 => /\ pc'[c] = "done"
                    /\ client[c] \notin clients
                    /\ UNCHANGED <<hubState, clients, closed, mailbox, broadcast>>]_vars
    /\ \A c \in Conns : FindsClosed(c) ~> (pc[c] = "done")

C29_Witness ==
    \E c \in Conns :
        /\ pc[c] = "done"
        /\ ~cancelled[c]
        /\ unregSent[c] = 1
        /\ nUnreg = 2
        /\ Len(frames[c]) = 1
        /\ hubState = "running"

NotNewline(x) == x # "\n"

\* the part of a data frame between the prefix and the two final newlines
FramePayload(f) == SubSeq(f, Len(FramePrefix) + 1, Len(f) - Len(FrameEnd))

IsDataFrame(f) ==
    /\ Len(f) >= Len(FramePrefix) + Len(FrameEnd)
    /\ SubSeq(f, 1, Len(FramePrefix)) = FramePrefix
    /\ SubSeq(f, Len(f) - Len(FrameEnd) + 1, Len(f)) = FrameEnd

\* C30: a handler writes one frame at a time.  The frame written for a
\* message taken from the mailbox is 'data: ', then the characters of the
\* message other than newlines in their order, then two newlines, so its
\* payload holds no newline; the step takes exactly that one message.  The
\* frame of a keep-alive tick is the comment ': keep-alive' and the step
\* leaves every mailbox as it was.  At any time the data frames a handler
\* has written are one for the connected message plus one for each message
\* it has taken.
C30_OneFramePerMessage ==
    [][\A c \in Conns :
         /\ frames'[c] # frames[c] =>
              /\ frames'[c] = Append(frames[c], frames'[c][Len(frames'[c])])
              /\ LET f == frames'[c][Len(frames'[c])]
                     ch == client[c]
                 IN IF pc[c] = "sentinel"
                    THEN f = FramePrefix \o ConnectedMsg \o FrameEnd
                    ELSE IF recvd'[c] # recvd[c]
                    THEN /\ mailbox[ch] # <<>>
                         /\ mailbox'[ch] = Tail(mailbox[ch])
                         /\ recvd'[c] = Append(recvd[c], Head(mailbox[ch]).seq)
                         /\ IsDataFrame(f)
                         /\ FramePayload(f) = SelectSeq(Head(mailbox[ch]).body, NotNewline)
                         /\ \A i \in 1..Len(FramePayload(f)) : FramePayload(f)[i] # "\n"
                    ELSE /\ f = KeepAliveFrame
                         /\ f[1] = ":"
                         /\ ~IsDataFrame(f)
                         /\ mailbox' = mailbox
         /\ Len(SelectSeq(frames'[c], IsDataFrame))
              = Len(recvd'[c]) + (IF frames'[c] = <<>> THEN 0 ELSE 1)]_vars

C30_Witness ==
    \E c \in Conns :
        /\ Len(frames[c]) = 3
        /\ \E i \in 2..3 : frames[c][i] = KeepAliveFrame
        /\ \E i \in 2..3 :
              frames[c][i] = FramePrefix \o <<"{", "\"", "k", "\"", ":", "1", "}">> \o FrameEnd
        /\ Len(recvd[c]) = 1

\* ------------------------------------------------------------------------
\* Hub.Run: closed mailboxes
\* ------------------------------------------------------------------------
\* C31: under any interleaving of register, unregister and broadcast
\* requests Hub.Run does not panic, so it neither sends on a closed mailbox
\* nor closes one twice; every mailbox in the registry is open and every
\* closed mailbox is absent from the registry; no mailbox is reopened; and
\* a mailbox becomes closed only in a step that takes it out of the
\* registry.
C31_ClosedOnlyWhenRemoved ==
    [][/\ hubState' = "running"
       /\ clients' \cap closed' = {}
       /\ closed \subseteq closed'
       /\ \A ch \in closed' \ closed : ch \in clients /\ ch \notin clients']_vars

C31_Witness ==
    /\ hubState = "running"
    /\ closed # {}
    /\ nUnreg > Cardinality(unregSeen)
    /\ \E h \in clients : mailbox[h] # <<>>
    /\ \A h \in closed : mailbox[h] = <<>>

\* ------------------------------------------------------------------------
\* Hub.Run: registration and fan-out
\* ------------------------------------------------------------------------
\* The handlers and the Broadcast callers, with the registry noted when a
\* Broadcast call starts.
BroadcastCallNoted(p) ==
    /\ BroadcastCall(p, PayloadJSON)
    /\ pregd' = [pregd EXCEPT ![p] = clients]
    /\ UNCHANGED mqVars

NotedNext ==
    \/ \E c \in Conns, canFlush \in BOOLEAN :
          Start(c, canFlush) /\ UNCHANGED reqVars
    \/ \E c \in Conns : Register(c)
    \/ \E c \in Conns : WriteConnected(c)
    \/ \E c \in Conns : Cancel(c)
    \/ \E c \in Conns : LoopCancel(c)
    \/ \E c \in Conns : LoopTick(c)
    \/ \E c \in Conns : LoopRecv(c)
    \/ \E c \in Conns : Unregister(c)
    \/ \E p \in Producers : BroadcastCallNoted(p)
    \/ \E p \in Producers : BroadcastSend(p)
    \/ HubBroadcast

NotedSpec == Init /\ [][NotedNext]_vars

\* handler c has completed its send on h.register and the hub has not yet
\* processed its unregister request
Awaited(c) == pc[c] \in {"sentinel", "loop", "unregister"}

\* C32: the step in which a handler's send on h.register completes puts its
\* channel in the registry, where it stays until the hub processes the
\* handler's unregister request.  When the hub fans out a message whose
\* Broadcast call started with the channel registered, and the handler's
\* unregister request has not been processed, the message is appended to
\* that channel's mailbox unless the mailbox is full, in which case the
\* mailbox is left as it is; and no fan-out passes over a registered channel
\* whose mailbox has room.
C32_RegisteredClientsServed ==
    [][/\ \A c \in Conns :
            /\ (pc[c] = "register" /\ pc'[c] # "register") => client[c] \in clients'
            /\ Awaited(c) => client[c] \in clients
       /\ FanOutStep =>
            /\ \A c \in Conns :
                  (Awaited(c) /\ client[c] \in Head(broadcast).regd) =>
                     mailbox'[client[c]] =
                        IF Len(mailbox[client[c]]) < MailboxCap
                        THEN Append(mailbox[client[c]], Head(broadcast))
                        ELSE mailbox[client[c]]
            /\ \A h \in clients :
                  Len(mailbox[h]) < MailboxCap =>
                     mailbox'[h] = Append(mailbox[h], Head(broadcast))]_vars

\* both handlers registered before the first Broadcast call started; one
\* has taken message 1 and holds message 2, the other still holds message 1,
\* which filled its mailbox when message 2 was fanned out
C32_Witness ==
    \E c, d \in Conns :
       /\ c # d
       /\ Awaited(c) /\ Awaited(d)
       /\ recvd[c] = <<1>>
       /\ mailbox[client[c]] # <<>>
       /\ mailbox[client[c]][1].seq = 2
       /\ mailbox[client[c]][1].regd = {client[c], client[d]}
       /\ recvd[d] = <<>>
       /\ mailbox[client[d]] # <<>>
       /\ mailbox[client[d]][1].seq = 1
       /\ mailbox[client[d]][1].regd = {client[c], client[d]}
       /\ accepted >= 2
       /\ broadcast = <<>>

\* ------------------------------------------------------------------------
\* Package tickets: API, and the gateway's assign route
\* ------------------------------------------------------------------------
\* The callers are the goroutines of the HTTP server, each running one
\* ticket handler at a time with the principal u that currentUser returned.
\* A handler is cut where it reaches the database a second time and where it
\* reaches the broker client; each Repository method is one step.  The
\* request body, whether a database call fails (dbok), what the auth service
\* replies and what the broker client reports are inputs the handler reads
\* where its code reads them.
TicketFrame ==
    UNCHANGED <<gatewayVars, sessVars, reqVars, bridgeVars, ringVars, raceVars>>

\* a caller takes a ticket request
TicketStart(g) ==
    /\ tpc[g] = "idle"
    /\ \A h \in Callers : h < g => tpc[h] # "idle"
    /\ tops < MaxTicketOps
    /\ tops' = tops + 1

\* the handler writes its response and returns without a database change
TicketReplyFor(g, op, u, id, code, body) ==
    /\ tout' = Outcome(op, u, id, code, body)
    /\ tpc' = [tpc EXCEPT ![g] = "idle"]
    /\ tloc' = [tloc EXCEPT ![g] = NoLocals]
    /\ UNCHANGED <<tickets, published>>

\* writeErr(w, code, err) with a message the model tells apart
TicketRefuse(g, op, u, id, code, err) ==
    /\ tout' = [Outcome(op, u, id, code, <<>>) EXCEPT !.err = err]
    /\ tpc' = [tpc EXCEPT ![g] = "idle"]
    /\ tloc' = [tloc EXCEPT ![g] = NoLocals]
    /\ UNCHANGED <<tickets, published>>

TicketReply(g, op, u, code, body) == TicketReplyFor(g, op, u, 0, code, body)

\* the handler has changed the table to q and goes on to publish on topic
TicketChanged(g, op, u, q, id, topic, staff, listed, room) ==
    /\ tickets' = q
    /\ tpc' = [tpc EXCEPT ![g] = "publish"]
    /\ tloc' = [tloc EXCEPT ![g] =
                  [op |-> op, u |-> u, id |-> id, status |-> q[id].Status,
                   staff |-> staff, listed |-> listed, topic |-> topic,
                   was |-> q[id], room |-> room]]
    /\ tout' = NoOutcome
    /\ UNCHANGED published

\* GET /api/tickets
ListTicketsForUser(g, u) ==
    /\ TicketStart(g)
    /\ IF u.Role \notin {RoleAdmin, RoleGuest, RoleStaff}
       THEN TicketReply(g, "list", u, 403, <<>>)
       ELSE \E dbok \in BOOLEAN :
              IF ~dbok
              THEN TicketReply(g, "list", u, 500, <<>>)
              ELSE TicketReply(g, "list", u, 200,
                      CASE u.Role = RoleAdmin -> ListAll(tickets)
                        [] u.Role = RoleGuest -> ListByRoom(tickets, u.Room)
                        [] u.Role = RoleStaff -> ListAssignedTo(tickets, u.ID))
    /\ TicketFrame

\* POST /api/tickets up to a.repo.Create
CreateTicketAsGuest(g, u) ==
    /\ TicketStart(g)
    /\ IF u.Role # RoleGuest \/ u.Room = ""
       THEN TicketReply(g, "create", u, 403, <<>>)
       ELSE \E body \in CreateBodies :
              IF body.bad
              THEN TicketReply(g, "create", u, 400, <<>>)
              ELSE IF ~IsValidType(body.type) \/ body.description = ""
              THEN TicketReply(g, "create", u, 400, <<>>)
              ELSE \E dbok \in BOOLEAN :
                     IF ~dbok
                     THEN TicketReply(g, "create", u, 500, <<>>)
                     ELSE /\ Len(tickets) < MaxTickets
                          /\ TicketChanged(g, "create", u,
                                RepoCreate(tickets,
                                   [ID |-> 0, Type |-> body.type, Room |-> u.Room,
                                    Description |-> body.description,
                                    Status |-> StatusOpen,
                                    CreatedByUserID |-> u.ID,
                                    AssignedToUserID |-> NoAssignee]),
                                Len(tickets) + 1, TopicTicketCreated, 0, {}, body.room)
    /\ TicketFrame

\* GET /api/tickets/{id}
GetTicket(g, u, ids) ==
    /\ TicketStart(g)
    /\ IF ~parseID(ids).ok
       THEN TicketReply(g, "get", u, 400, <<>>)
       ELSE IF ~RowExists(tickets, parseID(ids).n)
       THEN TicketReplyFor(g, "get", u, parseID(ids).n, 404, <<>>)
       ELSE \E dbok \in BOOLEAN :
              IF ~dbok
              THEN TicketReplyFor(g, "get", u, parseID(ids).n, 500, <<>>)
              ELSE IF ~canView(u, tickets[parseID(ids).n])
              THEN TicketReplyFor(g, "get", u, parseID(ids).n, 403, <<>>)
              ELSE TicketReplyFor(g, "get", u, parseID(ids).n, 200,
                                  <<tickets[parseID(ids).n]>>)
    /\ TicketFrame

\* variant: only an ADMIN or the assigned STAFF user passes the role check
MayUpdateStrict(u, current) ==
    \/ u.Role = RoleAdmin
    \/ u.Role = RoleStaff /\ current.AssignedToUserID = u.ID

\* the role check of UpdateStatus on the ticket current
MayUpdate(u, current) ==
    /\ u.Role # RoleGuest
    /\ u.Role = RoleStaff =>
          (current.AssignedToUserID # NoAssignee /\ current.AssignedToUserID = u.ID)

\* PATCH /api/tickets/{id}/status up to the role check on a.repo.Get's row
UpdateStatusGet(g, u, ids) ==
    /\ TicketStart(g)
    /\ IF ~parseID(ids).ok
       THEN TicketReply(g, "status", u, 400, <<>>)
       ELSE \E body \in UpdateBodies :
              IF body.bad
              THEN TicketReply(g, "status", u, 400, <<>>)
              ELSE IF ~IsValidStatus(body.status)
              THEN TicketRefuse(g, "status", u, parseID(ids).n, 400, InvalidStatus)
              ELSE IF ~RowExists(tickets, parseID(ids).n)
              THEN TicketReply(g, "status", u, 404, <<>>)
              ELSE \E dbok \in BOOLEAN :
                     IF ~dbok
                     THEN TicketReply(g, "status", u, 500, <<>>)
                     ELSE IF ~MayUpdate(u, tickets[parseID(ids).n])
                     THEN TicketReply(g, "status", u, 403, <<>>)
                     ELSE /\ tpc' = [tpc EXCEPT ![g] = "update"]
                          /\ tloc' = [tloc EXCEPT ![g] =
                                        [NoLocals EXCEPT !.op = "status", !.u = u,
                                                         !.id = parseID(ids).n,
                                                         !.status = body.status]]
                          /\ tout' = NoOutcome
                          /\ UNCHANGED <<tickets, published>>
    /\ TicketFrame

\* a.repo.UpdateStatus(id, req.Status)
UpdateStatusWrite(g, dbok) ==
    /\ tpc[g] = "update"
    /\ IF ~RowExists(tickets, tloc[g].id)
       THEN TicketReply(g, "status", tloc[g].u, 404, <<>>)
       ELSE IF ~dbok
       THEN TicketReply(g, "status", tloc[g].u, 500, <<>>)
       ELSE TicketChanged(g, "status", tloc[g].u,
               RepoUpdateStatus(tickets, tloc[g].id, tloc[g].status),
               tloc[g].id, TopicTicketStatusUpdated, 0, {}, "")
    /\ UNCHANGED tops
    /\ TicketFrame

\* variant: the route takes any positive id without asking the auth service
StaffFoundAny(listed, id) == TRUE

\* the loop over the users ListUsersByRole returned
StaffFound(listed, id) == id \in listed

\* PATCH /api/tickets/{id}/assign up to repo.Assign; up and listed are the
\* reply of the auth service
AssignRoute(g, u, ids) ==
    /\ TicketStart(g)
    /\ IF u.Role # RoleAdmin
       THEN TicketRefuse(g, "assign", u, mustParseID(ids), 403, "admin only")
       ELSE \E body \in AssignBodies :
              IF body.bad
              THEN TicketRefuse(g, "assign", u, mustParseID(ids), 400,
                                "invalid json/staff_user_id")
              ELSE IF body.staff_user_id <= 0
              THEN TicketRefuse(g, "assign", u, mustParseID(ids), 400,
                                "invalid json/staff_user_id")
              ELSE \E up \in BOOLEAN, listed \in StaffLists :
                     IF ~up
                     THEN TicketRefuse(g, "assign", u, mustParseID(ids), 502, "auth service unavailable")
                     ELSE IF ~StaffFound(listed, body.staff_user_id)
                     THEN TicketRefuse(g, "assign", u, mustParseID(ids), 400,
                                       "staff user not found")
                     ELSE IF ~RowExists(tickets, mustParseID(ids))
                     THEN TicketRefuse(g, "assign", u, mustParseID(ids), 404, "not found")
                     ELSE \E dbok \in BOOLEAN :
                            IF ~dbok
                            THEN TicketRefuse(g, "assign", u, mustParseID(ids), 500, "db error")
                            ELSE TicketChanged(g, "assign", u,
                                    RepoAssign(tickets, mustParseID(ids),
                                               body.staff_user_id),
                                    mustParseID(ids), TopicTicketAssigned,
                                    body.staff_user_id, listed, "")
    /\ TicketFrame

\* variant: an event is handed to the client whatever IsConnected reports
MayPublishAlways(conn) == TRUE

\* publish and publishMQTT: c == nil || !c.IsConnected() skips the publish
MayPublish(conn) == conn

\* the event name of a topic
EventName(topic) == topic[Len(topic)]

\* publish / publishMQTT, then the response; conn is what IsConnected
\* reports and sent whether the token ends without an error, in which case
\* the event has gone to the broker
PublishStep(g, conn, sent) ==
    /\ tpc[g] = "publish"
    /\ MayPublish(conn) \/ ~sent
    /\ published' =
          IF sent
          THEN Append(published,
                  Event(tloc[g].topic, EventName(tloc[g].topic),
                        tloc[g].was.ID, tloc[g].staff))
          ELSE published
    /\ tout' = [Outcome(tloc[g].op, tloc[g].u, tloc[g].id,
                        IF tloc[g].op = "create" THEN 201 ELSE 200,
                        <<tloc[g].was>>)
                   EXCEPT !.conn = conn, !.sent = sent]
    /\ tpc' = [tpc EXCEPT ![g] = "idle"]
    /\ tloc' = [tloc EXCEPT ![g] = NoLocals]
    /\ UNCHANGED <<tickets, tops>>
    /\ TicketFrame

TicketNext ==
    \/ \E g \in Callers, u \in Principals : ListTicketsForUser(g, u)
    \/ \E g \in Callers, u \in Principals : CreateTicketAsGuest(g, u)
    \/ \E g \in Callers, u \in Principals, ids \in IDParams : GetTicket(g, u, ids)
    \/ \E g \in Callers, u \in Principals, ids \in IDParams : UpdateStatusGet(g, u, ids)
    \/ \E g \in Callers, dbok \in BOOLEAN : UpdateStatusWrite(g, dbok)
    \/ \E g \in Callers, u \in Principals, ids \in IDParams : AssignRoute(g, u, ids)
    \/ \E g \in Callers, conn \in BOOLEAN, sent \in BOOLEAN : PublishStep(g, conn, sent)

TicketSpec == Init /\ [][TicketNext]_vars

\* ------------------------------------------------------------------------
\* Ticket routes: who may change a status
\* ------------------------------------------------------------------------
\* C33 as stated: a status request gets past the role check of UpdateStatus,
\* and changes the ticket's status, only when its principal is an ADMIN or
\* the STAFF user the ticket is assigned to; the request of a GUEST, of a
\* STAFF user not assigned to the ticket and of a principal with any other
\* role value is rejected before it changes the ticket or publishes.
C33_StatusChangeOnlyByAdminOrAssignee ==
    \A g \in Callers :
       (tloc[g].op = "status" /\ tpc[g] \in {"update", "publish"}) =>
          \/ tloc[g].u.Role = RoleAdmin
          \/ /\ tloc[g].u.Role = RoleStaff
             /\ tickets[tloc[g].id].AssignedToUserID = tloc[g].u.ID

\* ------------------------------------------------------------------------
\* Ticket routes: visibility
\* ------------------------------------------------------------------------
Rows(q) == {q[i] : i \in 1..Len(q)}

\* C34: a response of GetTicket or ListTicketsForUser that carries tickets
\* carries rows of the table that the role of its principal may see: an
\* ADMIN any row, a GUEST rows whose room is the guest's non-empty room, a
\* STAFF user rows assigned to that user, any other role none.  A list
\* carries every such row once; a get of an existing row answers 403
\* exactly when the principal may not see it (500 if the database failed);
\* and a principal with any other role gets 403 from the list.
C34_VisibilityFollowsRole ==
    LET u == tout.u
        Sees(t) ==
           \/ u.Role = RoleAdmin
           \/ u.Role = RoleGuest /\ u.Room # "" /\ t.Room = u.Room
           \/ u.Role = RoleStaff /\ t.AssignedToUserID = u.ID
    IN  tout.op \in {"list", "get"} =>
           /\ \A t \in Rows(tout.body) : t \in Rows(tickets) /\ Sees(t)
           /\ tout.code # 200 => tout.body = <<>>
           /\ tout.op = "list" =>
                 /\ tout.code = 200 =>
                       /\ \A t \in Rows(tickets) : Sees(t) => t \in Rows(tout.body)
                       /\ Len(tout.body) = Cardinality(Rows(tout.body))
                 /\ u.Role \notin {RoleAdmin, RoleGuest, RoleStaff} => tout.code = 403
           /\ (tout.op = "get" /\ RowExists(tickets, tout.id)) =>
                 /\ Sees(tickets[tout.id]) => tout.code \in {200, 500}
                 /\ ~Sees(tickets[tout.id]) => tout.code \in {403, 500}
                 /\ tout.code = 200 => tout.body = <<tickets[tout.id]>>

\* two tickets of different rooms exist and a guest was listed exactly the
\* one of the guest's room
C34_Witness ==
    /\ Len(tickets) = 2
    /\ tickets[1].Room # tickets[2].Room
    /\ tout.op = "list"
    /\ tout.code = 200
    /\ tout.u.Role = RoleGuest
    /\ Len(tout.body) = 1
    /\ tout.body[1].Room = tout.u.Room

\* ------------------------------------------------------------------------
\* Ticket routes: statuses and creation
\* ------------------------------------------------------------------------
\* C35: every row of the table has status OPEN, IN_PROGRESS or RESOLVED.  A
\* row is added only by the create request of a GUEST with a non-empty room:
\* the new row has status OPEN, the room of that principal and no assignee,
\* and the rows before it are left as they were.  A step changes the status
\* of a row only to one of the three values, and a status request whose
\* value is none of them never gets as far as the database.
C35_StatusesStayValid ==
    /\ [](\A i \in 1..Len(tickets) :
             tickets[i].Status \in {StatusOpen, StatusInProgress, StatusResolved})
    /\ [](\A g \in Callers :
             tpc[g] = "update" =>
                tloc[g].status \in {StatusOpen, StatusInProgress, StatusResolved})
    /\ [][/\ Len(tickets') >= Len(tickets)
          /\ Len(tickets') > Len(tickets) =>
                \E g \in Callers :
                   /\ tpc[g] = "idle" /\ tpc'[g] = "publish"
                   /\ tloc'[g].op = "create"
                   /\ tloc'[g].u.Role = RoleGuest
                   /\ tloc'[g].u.Room # ""
                   /\ tickets' = Append(tickets, tickets'[Len(tickets')])
                   /\ tickets'[Len(tickets')].Status = StatusOpen
                   /\ tickets'[Len(tickets')].Room = tloc'[g].u.Room
                   /\ tickets'[Len(tickets')].Room # tloc'[g].room
                   /\ tickets'[Len(tickets')].CreatedByUserID = tloc'[g].u.ID
                   /\ tickets'[Len(tickets')].AssignedToUserID = NoAssignee
                   /\ tickets'[Len(tickets')].ID = Len(tickets) + 1
          /\ tout'.err = InvalidStatus =>
                /\ tout'.code = 400
                /\ UNCHANGED <<tickets, tpc, published>>]_vars

\* a ticket was created and resolved, and a status request with a value that
\* is not a status has just been answered 400
C35_Witness ==
    /\ Len(tickets) = 1
    /\ tickets[1].Status = StatusResolved
    /\ tickets[1].Room = "101"
    /\ tout.op = "status"
    /\ tout.id = 1
    /\ tout.err = InvalidStatus
    /\ tops = 3

\* ------------------------------------------------------------------------
\* Ticket routes: assignment
\* ------------------------------------------------------------------------
\* the messages with which the assign route refuses a request
AssignRefusals ==
    {"admin only", "invalid json/staff_user_id", "auth service unavailable",
     "staff user not found", "not found", "db error"}

\* C36: a step changes the assignee of a row only in an assign request of
\* an ADMIN, only for the row the request names, and only to the positive
\* id the request carries, which is among the users the auth service listed
\* as STAFF for this request; nothing else of the table changes.  An assign
\* request that is refused (not an admin, a body that does not decode or a
\* non-positive id, the auth service unavailable, an id the auth service
\* does not list, an unknown ticket, a database error) changes no row and
\* sends no event, and no assigned event is sent for a request that was
\* refused.
C36_AssignOnlyByAdminToListedStaff ==
    [][/\ \A i \in 1..Len(tickets) :
            tickets'[i].AssignedToUserID # tickets[i].AssignedToUserID =>
               \E g \in Callers :
                  /\ tpc[g] = "idle" /\ tpc'[g] = "publish"
                  /\ tloc'[g].op = "assign"
                  /\ tloc'[g].u.Role = RoleAdmin
                  /\ tloc'[g].id = i
                  /\ tloc'[g].staff > 0
                  /\ tloc'[g].staff \in tloc'[g].listed
                  /\ tickets' = [tickets EXCEPT ![i].AssignedToUserID = tloc'[g].staff]
       /\ (tout'.op = "assign" /\ tout'.code # 200) =>
             /\ tout'.err \in AssignRefusals
             /\ UNCHANGED <<tickets, published, tpc>>
       /\ tout'.u.Role # RoleAdmin /\ tout'.op = "assign" => tout'.err = "admin only"
       /\ published' # published =>
             /\ published' = Append(published, published'[Len(published')])
             /\ published'[Len(published')].topic = TopicTicketAssigned =>
                   /\ tout'.op = "assign" /\ tout'.code = 200
                   /\ \E g \in Callers :
                         /\ tpc[g] = "publish" /\ tpc'[g] = "idle"
                         /\ tloc[g].op = "assign"
                         /\ tloc[g].staff \in tloc[g].listed
                         /\ published'[Len(published')].assigned_to = tloc[g].staff
                         /\ published'[Len(published')].ticket = tloc[g].id]_vars

\* a ticket is assigned to user 2, and an assign request naming a user
\* the auth service did not list has just been refused
C36_Witness ==
    /\ Len(tickets) = 1
    /\ tickets[1].AssignedToUserID = 2
    /\ tout.op = "assign"
    /\ tout.id = 1
    /\ tout.err = "staff user not found"
    /\ \E k \in 1..Len(published) : published[k].topic = TopicTicketAssigned

\* ------------------------------------------------------------------------
\* Ticket routes: events
\* ------------------------------------------------------------------------
\* the topic on which an operation announces itself
OwnTopic(op) ==
    CASE op = "create" -> TopicTicketCreated
      [] op = "status" -> TopicTicketStatusUpdated
      [] op = "assign" -> TopicTicketAssigned

\* handler g ends a request whose database change succeeded
Completes(g) == tpc[g] = "publish" /\ tpc'[g] = "idle"

\* C37: a handler reaches its publish only after its database change
\* succeeded, and takes it once; the step leaves the table as it is and
\* answers 200 or 201 whatever the broker client reports.  If the client is
\* connected and the publish does not fail, the step sends exactly one
\* event, on the topic of the operation and for its ticket; otherwise it
\* sends nothing.  No other step sends an event: not a request that was
\* rejected or failed, and not a later step for an operation whose publish
\* was skipped or failed.
C37_OneEventPerSuccess ==
    [][/\ \A g \in Callers :
             Completes(g) =>
                /\ RowExists(tickets, tloc[g].id)
                /\ tloc[g].was.ID = tloc[g].id
                /\ tickets' = tickets
                /\ tout'.op = tloc[g].op
                /\ tout'.code = IF tloc[g].op = "create" THEN 201 ELSE 200
                /\ tout'.body = <<tloc[g].was>>
                /\ tloc'[g] = NoLocals
                /\ IF tout'.conn /\ tout'.sent
                   THEN /\ published' = Append(published, published'[Len(published')])
                        /\ published'[Len(published')].topic = OwnTopic(tloc[g].op)
                        /\ published'[Len(published')].event
                              = OwnTopic(tloc[g].op)[Len(OwnTopic(tloc[g].op))]
                        /\ published'[Len(published')].ticket = tloc[g].id
                   ELSE published' = published
       /\ published' # published => \E g \in Callers : Completes(g)
       /\ \A g \in Callers :
             (tpc[g] # "publish" /\ tpc'[g] = "publish") =>
                /\ RowExists(tickets', tloc'[g].id)
                /\ tloc'[g].was = tickets'[tloc'[g].id]
                /\ published' = published
       /\ tout'.code \notin {0, 200, 201} => published' = published]_vars

\* a create was announced, and the status update that followed succeeded
\* although the client was not connected: one event only
C37_Witness ==
    /\ Len(tickets) = 1
    /\ tickets[1].Status = StatusResolved
    /\ tout.op = "status"
    /\ tout.code = 200
    /\ ~tout.conn
    /\ Len(published) = 1
    /\ published[1].topic = TopicTicketCreated
    /\ \A g \in Callers : tpc[g] = "idle"

\* ------------------------------------------------------------------------
\* Notifier: Add and /events on two goroutines
\* ------------------------------------------------------------------------
\* The subscription callback runs on the broker client's goroutine and the
\* /events handler on a goroutine of the HTTP server; RingBuffer has no
\* lock, so their accesses to rb.arr and to its array interleave.  Add and
\* the handler are cut at each read and write of the slice header and of an
\* element; copy moves one element at a time, lowest index first.  An
\* element is read and written whole here; the build may also tear it.
RaceFrame == UNCHANGED <<bridgeVars, gatewayVars, sessVars, reqVars, tktVars>>

\* the array rb.arr points to
RingArray == rmem[rb.arr.array]

\* rb.Add(rec) is entered with the message on topic t: len(rb.arr) < rb.max
\* is read, and the append writes its element, or the copy starts
AddBegin(t) ==
    /\ rb # NoRing
    /\ adding.pc = "idle"
    /\ Len(radded) < rb.max + RingExtra
    /\ Len(radded) >= MaxVariedAdds => t = TopicTicketCreated
    /\ LET e == EventRecord(Len(radded) + 1, t, PayloadJSON) IN
       /\ radded' = Append(radded, e)
       /\ IF rb.arr.len < rb.max
          THEN /\ rmem' = [rmem EXCEPT ![rb.arr.array] =
                              Append(SubSeq(@, 1, rb.arr.len), e)]
               /\ adding' = [pc |-> "len", k |-> rb.arr.len + 1, e |-> e]
          ELSE /\ adding' = [pc |-> "copy", k |-> 1, e |-> e]
               /\ UNCHANGED rmem
    /\ UNCHANGED <<rb, rsnap, rwas, rreq, serving, evout>>
    /\ RaceFrame

\* rb.arr = append(rb.arr, e): the new slice header is stored
AddStoreLen ==
    /\ adding.pc = "len"
    /\ rb' = [rb EXCEPT !.arr.len = adding.k]
    /\ adding' = NotAdding
    /\ UNCHANGED <<rmem, rsnap, rwas, radded, rreq, serving, evout>>
    /\ RaceFrame

\* copy(rb.arr, rb.arr[1:]) moves element k + 1 to k
AddCopy ==
    /\ adding.pc = "copy"
    /\ adding.k < rb.arr.len
    /\ rmem' = [rmem EXCEPT ![rb.arr.array][adding.k] = RingArray[adding.k + 1]]
    /\ adding' = [adding EXCEPT !.k = @ + 1]
    /\ UNCHANGED <<rb, rsnap, rwas, radded, rreq, serving, evout>>
    /\ RaceFrame

\* rb.arr[len(rb.arr)-1] = e, after the copy
AddStoreLast ==
    /\ adding.pc = "copy"
    /\ adding.k >= rb.arr.len
    /\ rmem' = [rmem EXCEPT ![rb.arr.array][rb.arr.len] = adding.e]
    /\ adding' = NotAdding
    /\ UNCHANGED <<rb, rsnap, rwas, radded, rreq, serving, evout>>
    /\ RaceFrame

\* GET /events: "count": len(rb.arr) is evaluated
EventsCount ==
    /\ rb # NoRing
    /\ serving.pc = "idle"
    /\ serving' = [NotServing EXCEPT !.pc = "snapshot", !.count = rb.arr.len]
    /\ UNCHANGED <<ringVars, adding, evout>>
    /\ RaceFrame

\* rb.Snapshot(): out := make([]EventRecord, len(rb.arr))
SnapshotMake ==
    /\ serving.pc = "snapshot"
    /\ serving' = [serving EXCEPT !.pc = "copy", !.n = rb.arr.len]
    /\ UNCHANGED <<ringVars, adding, evout>>
    /\ RaceFrame

\* copy(out, rb.arr) reads the next element
SnapshotCopy ==
    /\ serving.pc = "copy"
    /\ Len(serving.out) < serving.n
    /\ serving' = [serving EXCEPT !.out = Append(@, RingArray[Len(@) + 1])]
    /\ UNCHANGED <<ringVars, adding, evout>>
    /\ RaceFrame

\* Snapshot returns and the response is encoded
EventsReply ==
    /\ serving.pc = "copy"
    /\ Len(serving.out) = serving.n
    /\ evout' = [served |-> TRUE, count |-> serving.count, events |-> serving.out]
    /\ serving' = NotServing
    /\ UNCHANGED <<ringVars, adding>>
    /\ RaceFrame

RaceNext ==
    \/ \E cfg \in {<<"1">>, <<"2">>} : NotifierStart(cfg)
    \/ \E t \in {TopicTicketCreated, ChatTopic(1)} : AddBegin(t)
    \/ AddStoreLen
    \/ AddCopy
    \/ AddStoreLast
    \/ EventsCount
    \/ SnapshotMake
    \/ SnapshotCopy
    \/ EventsReply

RaceSpec == Init /\ [][RaceNext]_vars

\* the buffer's contents once the first j messages have been added
ContentsAfter(j) == LastN(SubSeq(radded, 1, j), rb.max)

\* C38 as stated: every /events response reports a count equal to the
\* number of events it returns, and the events are the contents the buffer
\* had at one point between two Adds.
C38_EventsAreOneSnapshot ==
    evout.served =>
       /\ evout.count = Len(evout.events)
       /\ \E j \in 0..Len(radded) : evout.events = ContentsAfter(j)

====
